---- MODULE Spec2Model ----
(***************************************************************************)
(* VinceRAG: the dual-storage Chunk Store (relational chunk rows + vector  *)
(* index entries), the document life cycle and the ingestion pipeline.     *)
(*                                                                         *)
(* Every handler is split at its awaits on an external collaborator (the   *)
(* embedding provider, the relational commit, the vector index), each of   *)
(* which either succeeds or raises.  One call runs at a time in Spec.      *)
(***************************************************************************)
EXTENDS Integers, Sequences, FiniteSets, TLC

\* ------------------------------------------------------------------ bounds
MaxDocs   == 1      \* documents ever created
MaxIds    == 2      \* chunk ids ever generated
MaxChunks == 2      \* chunks in one store_chunks / ingestion batch

DocIds    == 1..MaxDocs
ChunkIds  == 1..MaxIds

\* chunk texts: what ingestion and store_chunks are given, what update_chunk
\* may write over it, and the whitespace-only texts str.strip() empties
NewTexts  == {"a"}
UpdateTexts == {"b"}
Contents  == NewTexts \cup UpdateTexts
Blank     == {"", " "}

\* a chunk dict of the input list: with a "content" key, or without one
ChunkDatas == {[content |-> c] : c \in NewTexts \cup {" "}} \cup {[start_char |-> 0]}

ChunkLists == UNION {[1..n -> ChunkDatas] : n \in 0..MaxChunks}

\* the windows the splitter hands to the ingestion pipeline (never blank)
TextLists == UNION {[1..n -> NewTexts] : n \in 1..MaxChunks}

VARIABLES
  documents,    \* documents table: id -> status
  nextDocId,    \* ids handed to documents so far
  chunkRows,    \* document_chunks table: set of committed rows
  vectors,      \* Chroma collection: set of entries
  nextId,       \* ids handed to chunks so far (generate_id)
  call,         \* the call in flight or just returned: position, session, outcome
  onlyStores,   \* TRUE while every returned call was a successful store_chunks
  clock,        \* the system clock, as time.time() and datetime.now() read it
  last_timestamp, \* SnowflakeIDGenerator.last_timestamp
  sequence,     \* SnowflakeIDGenerator.sequence
  lock,         \* SnowflakeIDGenerator.lock: the thread holding it, 0 if free
  threads,      \* the threads calling generate_id: position and locals
  issued,       \* the ids generate_id returned, in the order it returned them
  cache,        \* QueryCache.cache: key -> (result, timestamp)
  max_size,     \* QueryCache.max_size
  tasks,        \* the query coroutines on the event loop: position and locals
  lastOp,       \* the last direct QueryCache call and what it returned
  sessions,     \* chat_sessions table: id -> row
  chatMessages, \* chat_messages table, in the order of created_at
  chat,         \* the ChatSessionManager call in flight or just returned
  chunker,      \* _create_chunks: its text, the splitter's windows, its locals
  optimizer,    \* optimize_query: its arguments and what query makes of them
  retrieval,    \* similarity_search, then rank_results: arguments and results
  deleter       \* a delete_chunks call on a session of its own, beside call

chunkStoreVars == <<documents, nextDocId, chunkRows, vectors, nextId, call, onlyStores>>
generatorVars == <<last_timestamp, sequence, lock, threads, issued>>
cacheVars == <<cache, max_size, tasks, lastOp>>
chatVars == <<sessions, chatMessages, chat>>
functionVars == <<chunker, optimizer, retrieval>>
peerVars == <<deleter>>

vars == <<chunkStoreVars, clock, generatorVars, cacheVars, chatVars, functionVars, peerVars>>

\* what the Chunk Store, the generator and the cache each leave alone
notChunkStoreVars == <<clock, generatorVars, cacheVars, chatVars, functionVars, peerVars>>
notGeneratorVars == <<chunkStoreVars, cacheVars, chatVars, functionVars, peerVars>>
notCacheVars == <<chunkStoreVars, generatorVars, chatVars, functionVars, peerVars>>
notChatVars == <<chunkStoreVars, clock, generatorVars, cacheVars, functionVars, peerVars>>
notFunctionVars == <<chunkStoreVars, clock, generatorVars, cacheVars, chatVars, peerVars>>

\* ---------------------------------------------------------------- helpers
Range(s) == {s[i] : i \in DOMAIN s}

\* vector_id = str(chunk_id)
VectorId(id) == ToString(id)

\* DocumentChunk(...) as built in store_chunks / _store_chunks
DocumentChunk(id, d, i, text) ==
  [id |-> id, document_id |-> d, chunk_index |-> i,
   vector_id |-> VectorId(id), content |-> text]

\* one entry of the collection: id, document, metadata
VectorEntry(vid, id, d, i, text) ==
  [id |-> vid, document |-> text, chunk_id |-> id, document_id |-> d,
   chunk_index |-> i]

RowsOf(rows, d)      == {r \in rows : r.document_id = d}
EntriesOf(vecs, d)   == {e \in vecs : e.document_id = d}
RowsWith(rows, v)    == {r \in rows : r.vector_id = v}
EntriesWith(vecs, v) == {e \in vecs : e.id = v}

NoCall == [pc |-> "idle", op |-> "none", doc |-> 0, cid |-> 0, content |-> "",
           texts |-> <<>>, rows |-> {}, entries |-> {}, ids |-> {},
           preRows |-> {}, preVecs |-> {}, events |-> <<>>,
           result |-> "none", stage |-> "none", error |-> <<>>,
           invalid |-> FALSE]

Idle == call.pc = "idle"

\* a call starts with a fresh session and the stores as they are
NewCall(op, pc) ==
  [NoCall EXCEPT !.op = op, !.pc = pc, !.preRows = chunkRows, !.preVecs = vectors]

\* the call c returns (result "ok") or raises (result "error") after the events es
Returned(c, es, result, stage, error) ==
  [c EXCEPT !.pc = "returned", !.events = @ \o es, !.result = result,
            !.stage = stage, !.error = error]

\* the call c moves on to pc after the events es
Goto(c, pc, es) == [c EXCEPT !.pc = pc, !.events = @ \o es]

\* the ghost onlyStores after a call returned
StoresOnly(op, result) == onlyStores /\ op = "store_chunks" /\ result = "ok"

\* raise VectorDatabaseError(f"<prefix>: {e}")
VectorDatabaseError(prefix, e) ==
  [kind |-> "VectorDatabaseError", message |-> <<prefix, e>>]

\* raise DocumentProcessingError / URLProcessingError from a pipeline's except branch
ProcessingError(op, e) ==
  IF op = "process_document"
  THEN [kind |-> "DocumentProcessingError",
        message |-> <<"Failed to process document", e>>]
  ELSE [kind |-> "URLProcessingError", message |-> <<"Failed to process URL", e>>]

\* chunk["content"].strip() is empty
IsBlank(text) == text \in Blank

\* a batch with a chunk that has no "content" key or whose content strips
\* to nothing
HasInvalid(chunks) ==
  \E i \in DOMAIN chunks :
    "content" \notin DOMAIN chunks[i] \/ IsBlank(chunks[i].content)

\* the validation loop of store_chunks: index of the first bad chunk, 0 if none
RECURSIVE FirstInvalid(_, _)
FirstInvalid(chunks, i) ==
  IF i > Len(chunks) THEN 0
  ELSE IF "content" \notin DOMAIN chunks[i] THEN i
  ELSE IF IsBlank(chunks[i].content) THEN i
  ELSE FirstInvalid(chunks, i + 1)

\* ------------------------------------------------ SnowflakeIDGenerator
MaxTime     == 3    \* clock readings, in milliseconds since the epoch
MaxThreads  == 2    \* threads calling generate_id
MaxIssued   == 4    \* ids ever returned
sequence_bits == 1  \* 12 in the source; the sequence wraps at 2^sequence_bits

worker_id_bits     == 5
datacenter_id_bits == 5
worker_id          == 1
datacenter_id      == 1

Threads == 1..MaxThreads
Times   == 0..MaxTime

max_sequence       == 2^sequence_bits - 1
worker_id_shift     == sequence_bits
datacenter_id_shift == sequence_bits + worker_id_bits
timestamp_shift     == sequence_bits + worker_id_bits + datacenter_id_bits

\* the id generate_id assembles; the fields do not overlap, so | is +.
\* timestamp is the reading minus the epoch.
SnowflakeId(timestamp, seq) ==
  timestamp * 2^timestamp_shift + datacenter_id * 2^datacenter_id_shift
    + worker_id * 2^worker_id_shift + seq

\* parse_id
ParseId(id) ==
  [timestamp |-> id \div 2^timestamp_shift,
   datacenter_id |-> (id \div 2^datacenter_id_shift) % 2^datacenter_id_bits,
   worker_id |-> (id \div 2^worker_id_shift) % 2^worker_id_bits,
   sequence |-> id % 2^sequence_bits]

\* a thread outside generate_id
NoThread == [pc |-> "idle", timestamp |-> -1, arg |-> -1, waited |-> FALSE, id |-> -1]

InitGenerator ==
  /\ last_timestamp = -1
  /\ sequence = 0
  /\ lock = 0
  /\ threads = [t \in Threads |-> NoThread]
  /\ issued = <<>>

\* time passes
ClockTick ==
  /\ clock < MaxTime
  /\ clock' = clock + 1
  /\ UNCHANGED <<chunkStoreVars, generatorVars, cacheVars, chatVars, functionVars, peerVars>>

\* the wall clock is set back
ClockBack ==
  /\ clock > 0
  /\ clock' = clock - 1
  /\ UNCHANGED <<chunkStoreVars, generatorVars, cacheVars, chatVars, functionVars, peerVars>>

\* generate_id entered without taking the lock
GenAcquireNoLock(t) ==
  /\ threads[t].pc = "idle"
  /\ Len(issued) < MaxIssued
  /\ lock' = t
  /\ threads' = [threads EXCEPT ![t].pc = "read"]
  /\ UNCHANGED <<clock, last_timestamp, sequence, issued, notGeneratorVars>>

\* with self.lock:
GenAcquire(t) ==
  /\ threads[t].pc = "idle"
  /\ lock = 0
  /\ Len(issued) < MaxIssued
  /\ lock' = t
  /\ threads' = [threads EXCEPT ![t].pc = "read"]
  /\ UNCHANGED <<clock, last_timestamp, sequence, issued, notGeneratorVars>>

\* GenRead without the refusal of a clock that moved backwards
GenReadAnyClock(t) ==
  /\ threads[t].pc = "read"
  /\ clock < MaxTime
  /\ IF clock = last_timestamp
     THEN /\ sequence' = (sequence + 1) % (max_sequence + 1)
          /\ threads' = [threads EXCEPT
                ![t].pc = IF sequence' = 0 THEN "wait" ELSE "make",
                ![t].timestamp = clock,
                ![t].arg = IF sequence' = 0 THEN last_timestamp ELSE @]
     ELSE /\ sequence' = 0
          /\ threads' = [threads EXCEPT ![t].pc = "make", ![t].timestamp = clock]
  /\ UNCHANGED <<clock, last_timestamp, lock, issued, notGeneratorVars>>

\* GenRead starting the sequence over when it refuses a clock that moved
\* backwards
GenReadResetting(t) ==
  /\ threads[t].pc = "read"
  /\ clock < MaxTime
  /\ IF clock < last_timestamp
     THEN /\ threads' = [threads EXCEPT ![t].pc = "raised"]
          /\ lock' = 0
          /\ sequence' = 0
     ELSE IF clock = last_timestamp
     THEN /\ sequence' = (sequence + 1) % (max_sequence + 1)
          /\ threads' = [threads EXCEPT
                ![t].pc = IF sequence' = 0 THEN "wait" ELSE "make",
                ![t].timestamp = clock,
                ![t].arg = IF sequence' = 0 THEN last_timestamp ELSE @]
          /\ UNCHANGED lock
     ELSE /\ sequence' = 0
          /\ threads' = [threads EXCEPT ![t].pc = "make", ![t].timestamp = clock]
          /\ UNCHANGED lock
  /\ UNCHANGED <<clock, last_timestamp, issued, notGeneratorVars>>

\* timestamp = self._current_timestamp() and the three cases on it
GenRead(t) ==
  /\ threads[t].pc = "read"
  /\ clock < MaxTime
  /\ IF clock < last_timestamp
     THEN /\ threads' = [threads EXCEPT ![t].pc = "raised"]
          /\ lock' = 0
          /\ UNCHANGED sequence
     ELSE IF clock = last_timestamp
     THEN /\ sequence' = (sequence + 1) % (max_sequence + 1)
          /\ threads' = [threads EXCEPT
                ![t].pc = IF sequence' = 0 THEN "wait" ELSE "make",
                ![t].timestamp = clock,
                ![t].arg = IF sequence' = 0 THEN last_timestamp ELSE @]
          /\ UNCHANGED lock
     ELSE /\ sequence' = 0
          /\ threads' = [threads EXCEPT ![t].pc = "make", ![t].timestamp = clock]
          /\ UNCHANGED lock
  /\ UNCHANGED <<clock, last_timestamp, issued, notGeneratorVars>>

\* _wait_next_timestamp leaving its loop on a reading equal to its argument
GenWaitNotStrict(t) ==
  /\ threads[t].pc = "wait"
  /\ IF clock < threads[t].arg
     THEN UNCHANGED threads
     ELSE threads' = [threads EXCEPT ![t].pc = "make", ![t].timestamp = clock,
                                     ![t].waited = TRUE]
  /\ UNCHANGED <<clock, last_timestamp, sequence, lock, issued, notGeneratorVars>>

\* _wait_next_timestamp(last_timestamp): one reading of the clock in its loop
GenWait(t) ==
  /\ threads[t].pc = "wait"
  /\ IF clock <= threads[t].arg
     THEN UNCHANGED threads
     ELSE threads' = [threads EXCEPT ![t].pc = "make", ![t].timestamp = clock,
                                     ![t].waited = TRUE]
  /\ UNCHANGED <<clock, last_timestamp, sequence, lock, issued, notGeneratorVars>>

\* self.last_timestamp = timestamp; assemble the id; return it, leaving the lock
GenMake(t) ==
  /\ threads[t].pc = "make"
  /\ last_timestamp' = threads[t].timestamp
  /\ issued' = Append(issued, SnowflakeId(threads[t].timestamp, sequence))
  /\ threads' = [threads EXCEPT ![t].pc = "done",
                                ![t].id = SnowflakeId(threads[t].timestamp, sequence)]
  /\ lock' = 0
  /\ UNCHANGED <<clock, sequence, notGeneratorVars>>

\* the caller has the id, or the exception
GenReturn(t) ==
  /\ threads[t].pc \in {"done", "raised"}
  /\ threads' = [threads EXCEPT ![t] = NoThread]
  /\ UNCHANGED <<clock, last_timestamp, sequence, lock, issued, notGeneratorVars>>

\* ---------------------------------------------------------- QueryCache
default_max_size == 1   \* 100 in the source: QueryCache(), as the service builds it
test_max_size    == 2   \* QueryCache(max_size=2), as its test builds it
ttl       == 1      \* 30 minutes in the source: here in ticks of the clock

\* two query coroutines on the event loop: enough for every pairwise race
Tasks     == {"A", "B"}
Questions == 1..(default_max_size + 1)    \* what the service is asked
TestQueries == 1..(test_max_size + 1)     \* "query1", "query2", "query3"
Answers   == {"x", "y"}         \* what the LLM may answer
None      == [none |-> TRUE]    \* Python's None where a result dict may stand
NoDocument == "None"            \* document_id=None: no document scope

\* (datetime.now() - start_time).total_seconds(): seconds, far below the
\* ticks of the clock the TTL is counted in, so a measured value of its own
Elapsed   == "seconds"

\* what the retriever may return: nothing, or one chunk with its similarity
\* (in hundredths)
Retrievals == {<<>>, <<[chunk_id |-> 1, similarity |-> 80]>>}

\* _generate_key: the digest of "query:document_id:similarity_threshold"
GenerateKey(query, document_id, similarity_threshold) ==
  <<query, document_id, similarity_threshold>>

\* the one scope and threshold the queries here use
KeyOf(question) == GenerateKey(question, NoDocument, 70)

\* min(average score, 1.0), in hundredths
RECURSIVE SumSimilarity(_)
SumSimilarity(sources) ==
  IF sources = <<>> THEN 0
  ELSE Head(sources).similarity + SumSimilarity(Tail(sources))

Confidence(sources) ==
  IF sources = <<>> THEN 0
  ELSE IF SumSimilarity(sources) \div Len(sources) < 100
       THEN SumSimilarity(sources) \div Len(sources) ELSE 100

\* the result dict query builds after the LLM answered
QueryResult(answer, sources) ==
  [answer |-> answer, sources |-> sources, confidence |-> Confidence(sources),
   retrieved_documents |-> Len(sources), processing_time |-> Elapsed,
   from_cache |-> FALSE]

\* result.copy() with processing_time and from_cache popped
CacheCopy(result) ==
  [answer |-> result.answer, sources |-> result.sources,
   confidence |-> result.confidence,
   retrieved_documents |-> result.retrieved_documents]

\* cached_result["from_cache"] = True; cached_result["processing_time"] = ...
\* written on the dict object the cache holds
MarkFromCache(result) ==
  [answer |-> result.answer, sources |-> result.sources,
   confidence |-> result.confidence,
   retrieved_documents |-> result.retrieved_documents,
   processing_time |-> Elapsed, from_cache |-> TRUE]

\* the no-results response of query
NoResults ==
  [answer |-> "no results", sources |-> <<>>, confidence |-> 0,
   retrieved_documents |-> 0, processing_time |-> Elapsed]

\* the values a direct caller stores
CachedValues == {CacheCopy(QueryResult(a, s)) : a \in Answers, s \in Retrievals \ {<<>>}}

Remove(c, key) == [k \in DOMAIN c \ {key} |-> c[k]]

Put(c, key, result, now) ==
  [k \in DOMAIN c \cup {key} |->
     IF k = key THEN [result |-> result, timestamp |-> now] ELSE c[k]]

\* CacheHit counting an entry whose age equals the TTL as live
CacheHitAtTtl(c, key, now) == key \in DOMAIN c /\ now - c[key].timestamp <= ttl

\* QueryCache.get: datetime.now() - timestamp < self.ttl
CacheHit(c, key, now) == key \in DOMAIN c /\ now - c[key].timestamp < ttl

CacheGetResult(c, key, now) == IF CacheHit(c, key, now) THEN c[key].result ELSE None

\* QueryCache.get deletes the entry it finds expired
CacheAfterGet(c, key, now) ==
  IF key \in DOMAIN c /\ ~CacheHit(c, key, now) THEN Remove(c, key) ELSE c

\* Oldest picking the entries inserted last
Newest(c) == {k \in DOMAIN c : \A j \in DOMAIN c : c[k].timestamp >= c[j].timestamp}

\* min(self.cache.keys(), key=timestamp): among equal timestamps the dict's
\* order decides, which the map here does not keep: any of them
Oldest(c) == {k \in DOMAIN c : \A j \in DOMAIN c : c[k].timestamp <= c[j].timestamp}

\* QueryCache.set: the caches it may leave
CacheSetOutcomes(c, key, result, now) ==
  IF Cardinality(DOMAIN c) >= max_size
  THEN {Put(Remove(c, old), key, result, now) : old \in Oldest(c)}
  ELSE {Put(c, key, result, now)}

\* a direct QueryCache call, what it returned and the keys it deleted
CacheOp(name, key, result, deleted) ==
  [op |-> name, key |-> key, result |-> result, deleted |-> deleted]

NoOp == CacheOp("none", <<>>, None, {})

\* a coroutine outside query
NoTask ==
  [pc |-> "idle", question |-> 0, history |-> FALSE, use_cache |-> FALSE,
   sources |-> <<>>, result |-> None, events |-> <<>>]

\* QueryCache(max_size=n), no query running
InitCacheSized(n) ==
  /\ cache = <<>>
  /\ max_size = n
  /\ tasks = [t \in Tasks |-> NoTask]
  /\ lastOp = NoOp

InitCache == InitCacheSized(default_max_size)

\* ------------------------------------------------ ChatSessionManager: data
MaxSessions == 1    \* chat sessions ever created
MaxDeltas   == 2    \* content chunks the LLM streams for one answer
history_limit == 1  \* 10 in the source: get_session_messages(..., limit=10)

\* chat messages ever persisted: enough for a session to outgrow the window
MaxMessages == history_limit + 3

SessionIds == 1..MaxSessions
DefaultTitle == "New Chat"
Titles     == {"t"}              \* the titles a caller gives
\* a text is a sequence of tokens, so that += on texts is \o
ChatQuestions == {<<"q1">>, <<"q2">>}   \* what the user asks in a session
ChatAnswers == {<<"x">>}            \* response.content of the blocking LLM call
Deltas     == {<<"x">>}             \* chunk.content of one streamed chunk
NoRelevant == <<"I couldn't find relevant information for your query.">>

\* a nullable JSON column: NULL, or the value stored
Json(value) == [value |-> value]

\* updated_at: NULL until the row is updated, then the now() of the statement
\* that updated it last, named here by that statement
NeverUpdated == "None"

\* ChatSession(title=title or "New Chat", is_active=True)
ChatSession(title) ==
  [title |-> title, is_active |-> TRUE, updated_at |-> NeverUpdated]

\* ChatMessage(session_id, role, content, sources); the id is generated at
\* the insert, created_at is the insert's now()
ChatMessage(id, session_id, role, content, sources) ==
  [id |-> id, session_id |-> session_id, role |-> role, content |-> content,
   sources |-> sources]

\* get_session without the is_active condition
GetSessionAnyState(rows, s) == s \in DOMAIN rows

\* get_session: there is a row with this id and is_active
GetSession(rows, s) == s \in DOMAIN rows /\ rows[s].is_active

\* list_chat_sessions: where is_active
ListSessions(rows) == {s \in DOMAIN rows : rows[s].is_active}

Reverse(seq) == [i \in 1..Len(seq) |-> seq[Len(seq) + 1 - i]]

Take(seq, n) == SubSeq(seq, 1, IF Len(seq) < n THEN Len(seq) ELSE n)

\* where session_id = s, order by created_at
MessagesOf(msgs, s) == SelectSeq(msgs, LAMBDA m : m.session_id = s)

\* get_session_messages ordering by created_at ascending before the limit
GetSessionMessagesOldest(msgs, s, limit) == Take(MessagesOf(msgs, s), limit)

\* get_session_messages: order_by(created_at.desc()).limit(limit), reversed
GetSessionMessages(msgs, s, limit) ==
  Reverse(Take(Reverse(MessagesOf(msgs, s)), limit))

\* chat_history: one {"role", "content"} dict per message
ChatHistory(messages) ==
  [i \in DOMAIN messages |->
     [role |-> messages[i].role, content |-> messages[i].content]]

\* the source_info list query builds from the ranked results
SourcesOf(docs) == docs

\* what a call returned
Returns(value) == [value |-> value]

\* RAGError(f"<prefix>: {e}")
RAGError(prefix, e) == [kind |-> "RAGError", message |-> <<prefix, e>>]

\* the events stream_message yields
MessageCreated(id, s) ==
  [type |-> "message_created", user_message_id |-> id, session_id |-> s]
ContentDelta(delta) == [type |-> "content_delta", delta |-> delta]
MessageCompleted(id, full) ==
  [type |-> "message_completed", assistant_message_id |-> id, full_content |-> full]
ErrorEvent(e) == [type |-> "error", error |-> e]

\* no ChatSessionManager call in flight
NoChat ==
  [pc |-> "idle", op |-> "none", session |-> 0, question |-> <<>>,
   history |-> <<>>, documents |-> <<>>, rag_response |-> None,
   user_message_id |-> 0, full_response |-> <<>>, steps |-> <<>>,
   events |-> <<>>, result |-> None, raised |-> FALSE,
   preSessions |-> <<>>, preMessages |-> <<>>]

ChatIdle == chat.pc = "idle"

\* a call starts: the tables as it finds them
NewChat(op, s, pc) ==
  [NoChat EXCEPT !.op = op, !.session = s, !.pc = pc,
                 !.preSessions = sessions, !.preMessages = chatMessages]

\* ------------------------------------------- DocumentProcessor._create_chunks
MaxText       == 5   \* characters in a document's text
chunk_size    == 3   \* 1000 in the source
chunk_overlap == 1   \* 200 in the source

Chars == {"a", "b"}

\* the texts handed to _create_chunks: "" and every text up to MaxText
InputTexts == UNION {[1..n -> Chars] : n \in 0..MaxText}

\* text[from:to], positions counted from 0 as Python does
Slice(text, from, to) ==
  SubSeq(text, from + 1, IF to < Len(text) THEN to ELSE Len(text))

\* RecursiveCharacterTextSplitter(chunk_size, chunk_overlap).split_text on a
\* text without separators: windows of chunk_size characters, each starting
\* chunk_overlap characters before the end of the one before
RECURSIVE Windows(_, _)
Windows(text, from) ==
  IF from + chunk_size >= Len(text)
  THEN <<Slice(text, from, Len(text))>>
  ELSE <<Slice(text, from, from + chunk_size)>>
         \o Windows(text, from + chunk_size - chunk_overlap)

SplitText(text) == Windows(text, 0)

\* str.find(sub, start): the lowest index >= start where sub occurs, or -1
Occurrences(text, sub, start) ==
  {p \in start..Len(text) :
     p + Len(sub) <= Len(text) /\ Slice(text, p, p + Len(sub)) = sub}

Find(text, sub, start) ==
  IF Occurrences(text, sub, start) = {} THEN -1
  ELSE CHOOSE p \in Occurrences(text, sub, start) :
         \A q \in Occurrences(text, sub, start) : p <= q

\* one entry of chunk_data
ChunkData(i, chunk_text, start_pos) ==
  [chunk_index |-> i, content |-> chunk_text, start_char |-> start_pos,
   end_char |-> start_pos + Len(chunk_text), token_count |-> Len(chunk_text) \div 4]

\* _create_chunks(text), before its first statement
CreateChunksCall(text) ==
  [pc |-> "check", text |-> text, chunks |-> <<>>, chunk_data |-> <<>>,
   current_pos |-> 0, error |-> "none"]

\* ------------------------------------------- RAGQueryService.optimize_query
MaxQueryLen   == 5   \* characters in a question
MaxHistory    == 4   \* messages in the chat history handed to query
context_chars == 2   \* 100 in the source: context_terms[:100]
recent_messages == 3     \* chat_history[-3:]
short_query_words == 2   \* len(query.split()) <= 2

Space == " "

\* the questions: every text of letters and spaces up to MaxQueryLen that
\* has a letter
QueryTexts ==
  {text \in UNION {[1..n -> {"a", Space}] : n \in 1..MaxQueryLen} :
     \E i \in DOMAIN text : text[i] # Space}

\* what earlier turns said
TurnTexts == {<<"B">>, <<"c">>}

Roles == {"user", "assistant"}

\* the histories: every list of up to MaxHistory {"role", "content"} dicts
Histories ==
  UNION {[1..n -> [role : Roles, content : TurnTexts]] : n \in 0..MaxHistory}

\* str.lower()
LowerChar(c) == IF c = "B" THEN "b" ELSE IF c = "A" THEN "a" ELSE c

Lower(text) == [i \in DOMAIN text |-> LowerChar(text[i])]

\* str.strip(): without the leading and the trailing whitespace
RECURSIVE StripLeft(_)
StripLeft(text) ==
  IF text # <<>> /\ Head(text) = Space THEN StripLeft(Tail(text)) ELSE text

Strip(text) == Reverse(StripLeft(Reverse(StripLeft(text))))

\* len(str.split()): the maximal runs of non-whitespace characters
WordCount(text) ==
  Cardinality({i \in DOMAIN text :
                 text[i] # Space /\ (i = 1 \/ text[i - 1] = Space)})

\* " ".join(texts)
RECURSIVE Join(_)
Join(texts) ==
  IF texts = <<>> THEN <<>>
  ELSE IF Len(texts) = 1 THEN texts[1]
  ELSE texts[1] \o <<Space>> \o Join(Tail(texts))

\* seq[-n:]
LastN(seq, n) == SubSeq(seq, IF Len(seq) > n THEN Len(seq) - n + 1 ELSE 1, Len(seq))

\* what the user said
UserTurns(history) ==
  LET users == SelectSeq(history, LAMBDA msg : msg.role = "user")
  IN  [i \in DOMAIN users |-> users[i].content]

\* recent_context: the content of the user messages among chat_history[-3:]
RecentContext(history) == UserTurns(LastN(history, recent_messages))

\* optimize_query(query, chat_history)
OptimizeQuery(query, history) ==
  IF history # <<>> /\ RecentContext(history) # <<>>
     /\ WordCount(query) <= short_query_words
     /\ Lower(Join(RecentContext(history))) # <<>>
  THEN query \o <<Space>> \o Take(Lower(Join(RecentContext(history))), context_chars)
  ELSE Strip(query)

\* query(question, chat_history=history), before optimize_query
OptimizeCall(question, history) ==
  [pc |-> "optimize", question |-> question, history |-> history,
   optimized_question |-> <<>>, query_optimized |-> FALSE, original_query |-> None]

\* ----------------------- VectorService.similarity_search and rank_results
\* Scores are exact decimals: a distance and a similarity count tenths, an
\* enhanced_score counts hundred-thousandths (a similarity in tenths times
\* three factors, in tenths, tenths and hundredths).
n_results == 2              \* 10 in the source: the hits asked of the index
recency_boost == 11         \* enhanced_score *= 1.1, in tenths
document_type_boost == 12   \* enhanced_score *= 1.2, in tenths
title_boost == 115          \* enhanced_score *= 1.15, in hundredths

\* cosine distances the index reports: 0.3, 1 and 1.2
Distances == {3, 10, 12}

\* similarity_threshold: Field(default=0.7, ge=0.0, le=1.0)
Thresholds == {0, 7}

\* the question handed to rank_results
RankQueries == {<<"c", Space, "A">>, <<"c">>}

\* metadata["document_type"]; "" where the key is absent, and the
\* boost_document_type argument, "" where it is None
NoType == ""
DocumentTypes == {NoType, "pdf"}

\* metadata["title"]: absent, a string, or a number
NoTitle == [present |-> FALSE, is_str |-> TRUE, text |-> <<>>]
StrTitle(text) == [present |-> TRUE, is_str |-> TRUE, text |-> text]
IntTitle == [present |-> TRUE, is_str |-> FALSE, text |-> <<>>]
TitleValues == {NoTitle, StrTitle(<<"x", "a">>), IntTitle}

\* the metadata dict of an index entry
Metadatas == [created_at : BOOLEAN, document_type : DocumentTypes, title : TitleValues]

\* what collection.query answers: up to n_results hits, nearest first; the
\* i-th hit is chunk i
IndexHits ==
  {hits \in UNION {[1..n -> [distance : Distances, metadata : Metadatas]] :
                     n \in 0..n_results} :
     \A i \in 1..(Len(hits) - 1) : hits[i].distance <= hits[i + 1].distance}

\* VectorStore.similarity_search: documents, similarities, metadatas, with
\* similarity = 1 - distance
Similarities(hits) ==
  [i \in DOMAIN hits |->
     [content |-> i, similarity |-> 10 - hits[i].distance,
      metadata |-> hits[i].metadata]]

\* one result dict; enhanced_score is a key only once rank_results set it
Result(content, similarity, metadata) ==
  [content |-> content, similarity |-> similarity, metadata |-> metadata,
   chunk_id |-> content, annotated |-> FALSE, enhanced_score |-> 0]

\* the loop of similarity_search keeping similarity > similarity_threshold
FilterAboveThreshold(found, similarity_threshold) ==
  LET kept == SelectSeq(found, LAMBDA hit : hit.similarity > similarity_threshold)
  IN  [i \in DOMAIN kept |->
         Result(kept[i].content, kept[i].similarity, kept[i].metadata)]

\* the loop of similarity_search: the hits with
\* similarity >= similarity_threshold, as result dicts, in the index's order
FilterByThreshold(found, similarity_threshold) ==
  LET kept == SelectSeq(found, LAMBDA hit : hit.similarity >= similarity_threshold)
  IN  [i \in DOMAIN kept |->
         Result(kept[i].content, kept[i].similarity, kept[i].metadata)]

\* str.split(): the maximal runs of non-whitespace characters
Words(text) ==
  {SubSeq(text, i, j) : <<i, j>> \in
     {<<i, j>> \in (DOMAIN text) \X (DOMAIN text) :
        /\ i <= j
        /\ \A k \in i..j : text[k] # Space
        /\ i = 1 \/ text[i - 1] = Space
        /\ j = Len(text) \/ text[j + 1] = Space}}

\* word in text, for two strings
Contains(text, word) ==
  \E k \in 0..(Len(text) - Len(word)) : SubSeq(text, k + 1, k + Len(word)) = word

\* any(word in title_lower for word in query_lower.split())
TitleMatches(title, query) ==
  \E word \in Words(Lower(query)) : Contains(Lower(title.text), word)

\* the score of a similarity no boost applied to
Unboosted(similarity) == similarity * 10 * 10 * 100

\* the same with a recency factor below 1
EnhancedScoreDecaying(result, query, boost_recent, boost_document_type) ==
  result.similarity
    * (IF boost_recent /\ result.metadata.created_at THEN 9 ELSE 10)
    * (IF boost_document_type # NoType
          /\ result.metadata.document_type = boost_document_type
       THEN document_type_boost ELSE 10)
    * (IF result.metadata.title.present /\ TitleMatches(result.metadata.title, query)
       THEN title_boost ELSE 100)

\* enhanced_score of one result: its similarity times the boosts that apply
EnhancedScore(result, query, boost_recent, boost_document_type) ==
  result.similarity
    * (IF boost_recent /\ result.metadata.created_at THEN recency_boost ELSE 10)
    * (IF boost_document_type # NoType
          /\ result.metadata.document_type = boost_document_type
       THEN document_type_boost ELSE 10)
    * (IF result.metadata.title.present /\ TitleMatches(result.metadata.title, query)
       THEN title_boost ELSE 100)

\* metadata["title"].lower() raises on a title that is no string
TitleRaises(result) ==
  result.metadata.title.present /\ ~result.metadata.title.is_str

\* the first result the scoring loop raises on, 0 if it raises on none
FirstRaising(results) ==
  IF \E i \in DOMAIN results : TitleRaises(results[i])
  THEN CHOOSE i \in DOMAIN results :
         /\ TitleRaises(results[i])
         /\ \A j \in 1..(i - 1) : ~TitleRaises(results[j])
  ELSE 0

\* result["enhanced_score"] = enhanced_score
Annotate(result, query, boost_recent, boost_document_type) ==
  [result EXCEPT !.annotated = TRUE,
                 !.enhanced_score =
                    EnhancedScore(result, query, boost_recent, boost_document_type)]

\* sorted(results, key=enhanced_score, reverse=True): stable, so results of
\* one score keep their order
RECURSIVE SortedByScore(_)
SortedByScore(results) ==
  IF results = <<>> THEN <<>>
  ELSE LET last == results[Len(results)]
           front == SortedByScore(SubSeq(results, 1, Len(results) - 1))
           ahead == SelectSeq(front, LAMBDA r : r.enhanced_score >= last.enhanced_score)
           behind == SelectSeq(front, LAMBDA r : r.enhanced_score < last.enhanced_score)
       IN  ahead \o <<last>> \o behind

\* the results as the scoring loop left them when it raised at result k
ScoredUpTo(results, k, query, boost_recent, boost_document_type) ==
  [i \in DOMAIN results |->
     IF i < k THEN Annotate(results[i], query, boost_recent, boost_document_type)
     ELSE results[i]]

\* the same, returning on its error path only the results it had scored
RankResultsDroppingUnscored(results, query, boost_recent, boost_document_type) ==
  IF results = <<>> THEN results
  ELSE IF FirstRaising(results) # 0
  THEN SubSeq(ScoredUpTo(results, FirstRaising(results), query, boost_recent,
                         boost_document_type), 1, FirstRaising(results) - 1)
  ELSE SortedByScore([i \in DOMAIN results |->
                        Annotate(results[i], query, boost_recent, boost_document_type)])

\* rank_results(results, query, boost_recent, boost_document_type)
RankResults(results, query, boost_recent, boost_document_type) ==
  IF results = <<>> THEN results
  ELSE IF FirstRaising(results) # 0
  THEN ScoredUpTo(results, FirstRaising(results), query, boost_recent,
                  boost_document_type)
  ELSE SortedByScore([i \in DOMAIN results |->
                        Annotate(results[i], query, boost_recent, boost_document_type)])

\* similarity_search(query, similarity_threshold) over an index that answers
\* hits, then rank_results(results, query, boost_recent, boost_document_type)
RetrievalCall(query, similarity_threshold, hits, boost_recent, boost_document_type) ==
  [pc |-> "search", query |-> query, similarity_threshold |-> similarity_threshold,
   hits |-> hits, boost_recent |-> boost_recent,
   boost_document_type |-> boost_document_type,
   found |-> <<>>, results |-> <<>>, ranked |-> <<>>, error |-> "none"]

\* ------------------- RAGQueryService.query under its two option arguments
\* (the specifications of the cache above hold both at their default, True)
\* the questions: one that str.strip() shortens, and one it leaves alone
OptionQuestions == {<<"a", Space>>, <<"a">>}

\* a chunk as ingestion stores it, and one whose metadata has a created_at
PlainMetadata == [created_at |-> FALSE, document_type |-> NoType, title |-> NoTitle]
RecentMetadata == [created_at |-> TRUE, document_type |-> NoType, title |-> NoTitle]

\* what the retriever may return, as result dicts: nothing, one chunk, or
\* two chunks of one similarity
RankableRetrievals ==
  {<<>>,
   <<Result(1, 8, RecentMetadata)>>,
   <<Result(1, 8, PlainMetadata), Result(2, 8, RecentMetadata)>>}

\* the two options of a query
QueryOptions(optimization, ranking) ==
  [enable_query_optimization |-> optimization, enable_result_ranking |-> ranking]

\* query(question, use_cache=True) without history, under the options
OptionsTask(question, optimization, ranking) ==
  [pc |-> "begin", question |-> question, history |-> FALSE, use_cache |-> TRUE,
   options |-> QueryOptions(optimization, ranking),
   optimized_question |-> <<>>, results |-> <<>>, result |-> None, events |-> <<>>]

\* source_info: enhanced_score is result.get("enhanced_score", similarity)
SourceInfo(result) ==
  [chunk_id |-> result.chunk_id, similarity |-> result.similarity,
   enhanced_score |-> IF result.annotated THEN result.enhanced_score
                      ELSE Unboosted(result.similarity)]

RECURSIVE SumScores(_, _)
SumScores(sources, ranking) ==
  IF sources = <<>> THEN 0
  ELSE (IF ranking THEN Head(sources).enhanced_score
        ELSE Unboosted(Head(sources).similarity))
       + SumScores(Tail(sources), ranking)

\* min(avg_score, 1.0) over the enhanced scores, or over the similarities
\* when ranking is disabled
ConfidenceUnder(sources, ranking) ==
  IF sources = <<>> THEN 0
  ELSE IF SumScores(sources, ranking) \div Len(sources) < Unboosted(10)
       THEN SumScores(sources, ranking) \div Len(sources) ELSE Unboosted(10)

\* the result dict, as far as the options shape it; computed_under is no key
\* of the dict: it notes the options of the query that computed the result
ResultUnder(task, answer) ==
  LET sources == [i \in DOMAIN task.results |-> SourceInfo(task.results[i])]
  IN  [answer |-> answer, sources |-> sources,
       confidence |-> ConfidenceUnder(sources, task.options.enable_result_ranking),
       retrieved_documents |-> Len(sources),
       query_optimized |-> task.optimized_question # task.question,
       original_query |-> IF task.optimized_question # task.question
                          THEN Json(task.question) ELSE None,
       computed_under |-> task.options,
       processing_time |-> Elapsed, from_cache |-> FALSE]

\* result.copy() with processing_time and from_cache popped
CacheCopyUnder(result) ==
  [k \in DOMAIN result \ {"processing_time", "from_cache"} |-> result[k]]

\* cached_result["from_cache"] = True; cached_result["processing_time"] = ...
MarkFromCacheUnder(result) ==
  [k \in DOMAIN result \cup {"processing_time", "from_cache"} |->
     IF k = "from_cache" THEN TRUE
     ELSE IF k = "processing_time" THEN Elapsed ELSE result[k]]

\* no function under evaluation
InitFunctions ==
  /\ chunker = [pc |-> "idle"]
  /\ optimizer = [pc |-> "idle"]
  /\ retrieval = [pc |-> "idle"]

InitChat ==
  /\ sessions = <<>>
  /\ chatMessages = <<>>
  /\ chat = NoChat

\* ------------------------------------------------------------------- Init
InitStores ==
  /\ documents = <<>>
  /\ nextDocId = 0
  /\ chunkRows = {}
  /\ vectors = {}
  /\ nextId = 0
  /\ call = NoCall
  /\ onlyStores = TRUE
  /\ deleter = NoCall

Init ==
  /\ InitStores
  /\ clock = 0
  /\ InitGenerator
  /\ InitCache
  /\ InitChat
  /\ InitFunctions

\* the same, around the cache its test builds
InitTestCache ==
  /\ InitStores
  /\ clock = 0
  /\ InitGenerator
  /\ InitCacheSized(test_max_size)
  /\ InitChat
  /\ InitFunctions

\* the caller has the outcome; get_db closes the session
EndCall ==
  /\ call.pc = "returned"
  /\ call' = NoCall
  /\ UNCHANGED <<documents, nextDocId, chunkRows, vectors, nextId, onlyStores>>
  /\ UNCHANGED notChunkStoreVars

\* ------------------------------------------------- DocumentService.create
CreateDocument ==
  /\ Idle
  /\ nextDocId < MaxDocs
  /\ nextDocId' = nextDocId + 1
  /\ documents' = [d \in DOMAIN documents \cup {nextDocId + 1} |->
                     IF d = nextDocId + 1 THEN "processing" ELSE documents[d]]
  /\ UNCHANGED <<chunkRows, vectors, nextId, call, onlyStores>>
  /\ UNCHANGED notChunkStoreVars

\* ---------------------------------------------------- ChromaVectorStore
\* collection.add(ids, embeddings, documents, metadatas)
AddDocuments(vecs, entries) ==
  vecs \cup {e \in entries : EntriesWith(vecs, e.id) = {}}

\* collection.delete(ids)
DeleteDocuments(vecs, ids) == {e \in vecs : e.id \notin ids}

\* --------------------------------------------- VectorService.store_chunks
\* the error every except path of store_chunks raises
StoreError(e) == VectorDatabaseError("Chunk storage failed", e)

\* StoreBegin dropping the invalid chunks and storing the valid ones
StoreBeginSkippingInvalid(d, chunks) ==
  /\ Idle
  /\ LET valid == SelectSeq(chunks, LAMBDA c : "content" \in DOMAIN c /\ ~IsBlank(c.content))
     IN IF valid = <<>>
        THEN /\ call' = Returned([NewCall("store_chunks", "idle") EXCEPT !.invalid = HasInvalid(chunks)],
                                  <<>>, "ok", "empty", <<>>)
             /\ onlyStores' = StoresOnly("store_chunks", "ok")
        ELSE /\ call' = [NewCall("store_chunks", "store_embed") EXCEPT
                           !.doc = d,
                           !.invalid = HasInvalid(chunks),
                           !.texts = [i \in DOMAIN valid |-> valid[i].content]]
             /\ UNCHANGED onlyStores
  /\ UNCHANGED <<documents, nextDocId, chunkRows, vectors, nextId>>
  /\ UNCHANGED notChunkStoreVars

\* entry, the empty-list return and the validation loop
StoreBegin(d, chunks) ==
  /\ Idle
  /\ IF chunks = <<>>
     THEN /\ call' = Returned(NewCall("store_chunks", "idle"), <<>>, "ok", "empty", <<>>)
          /\ onlyStores' = StoresOnly("store_chunks", "ok")
     ELSE IF FirstInvalid(chunks, 1) # 0
     THEN /\ call' = Returned([NewCall("store_chunks", "idle") EXCEPT !.invalid = HasInvalid(chunks)],
                        <<>>, "error", "validation",
                        VectorDatabaseError("Invalid chunk", FirstInvalid(chunks, 1)))
          /\ onlyStores' = StoresOnly("store_chunks", "error")
     ELSE /\ call' = [NewCall("store_chunks", "store_embed") EXCEPT
                        !.doc = d,
                        !.invalid = HasInvalid(chunks),
                        !.texts = [i \in DOMAIN chunks |-> chunks[i].content]]
          /\ UNCHANGED onlyStores
  /\ UNCHANGED <<documents, nextDocId, chunkRows, vectors, nextId>>
  /\ UNCHANGED notChunkStoreVars

\* StoreFail with a compensating delete of the rows the call committed
StoreFailCompensating(stage, e) ==
  /\ call' = Returned(call, <<stage \o "_fail", "rollback">>, "error", stage,
                      StoreError(e))
  /\ onlyStores' = StoresOnly("store_chunks", "error")
  /\ chunkRows' = chunkRows \ call.rows
  /\ UNCHANGED <<documents, nextDocId, vectors, nextId>>

\* the except branch: rollback, raise VectorDatabaseError("Chunk storage failed")
StoreFail(stage, e) ==
  /\ call' = Returned(call, <<stage \o "_fail", "rollback">>, "error", stage,
                      StoreError(e))
  /\ onlyStores' = StoresOnly("store_chunks", "error")
  /\ UNCHANGED <<documents, nextDocId, chunkRows, vectors, nextId>>

\* StoreEmbed with the rows built and committed before the embedding call
StoreEmbedAfterCommit(ok) ==
  /\ call.pc = "store_embed"
  /\ nextId + Len(call.texts) <= MaxIds
  /\ call.doc \in DOMAIN documents
  /\ nextId' = nextId + Len(call.texts)
  /\ chunkRows' = chunkRows \cup
        {DocumentChunk(nextId + i, call.doc, i - 1, call.texts[i]) :
           i \in DOMAIN call.texts}
  /\ IF ok
     THEN /\ call' = [Goto(call, "store_add", <<"commit_ok", "embed_ok">>) EXCEPT
                !.ids = {VectorId(nextId + i) : i \in DOMAIN call.texts},
                !.rows = {DocumentChunk(nextId + i, call.doc, i - 1, call.texts[i]) :
                            i \in DOMAIN call.texts},
                !.entries = {VectorEntry(VectorId(nextId + i), nextId + i, call.doc,
                                         i - 1, call.texts[i]) : i \in DOMAIN call.texts}]
          /\ UNCHANGED onlyStores
     ELSE /\ call' = Returned(call, <<"commit_ok", "embed_fail", "rollback">>, "error",
                              "embed", StoreError("Embedding generation failed"))
          /\ onlyStores' = StoresOnly("store_chunks", "error")
  /\ UNCHANGED <<documents, nextDocId, vectors>>
  /\ UNCHANGED notChunkStoreVars

\* embed_documents, then the loop that builds the rows and the vector data
StoreEmbed(ok) ==
  /\ call.pc = "store_embed"
  /\ IF ~ok
     THEN StoreFail("embed", "Embedding generation failed")
     ELSE /\ nextId + Len(call.texts) <= MaxIds
          /\ nextId' = nextId + Len(call.texts)
          /\ call' = [Goto(call, "store_commit", <<"embed_ok">>) EXCEPT
                !.ids = {VectorId(nextId + i) : i \in DOMAIN call.texts},
                !.rows = {DocumentChunk(nextId + i, call.doc, i - 1, call.texts[i]) :
                            i \in DOMAIN call.texts},
                !.entries = {VectorEntry(VectorId(nextId + i), nextId + i, call.doc,
                                         i - 1, call.texts[i]) : i \in DOMAIN call.texts}]
          /\ UNCHANGED <<documents, nextDocId, chunkRows, vectors, onlyStores>>
  /\ UNCHANGED notChunkStoreVars

\* StoreCommit with a failed commit swallowed: the call goes on to the vector write
StoreCommitSwallowed(ok) ==
  /\ call.pc = "store_commit"
  /\ IF ok /\ call.doc \in DOMAIN documents
     THEN /\ chunkRows' = chunkRows \cup call.rows
          /\ call' = Goto(call, "store_add", <<"commit_ok">>)
     ELSE /\ call' = Goto(call, "store_add", <<"commit_fail", "rollback">>)
          /\ UNCHANGED chunkRows
  /\ UNCHANGED <<documents, nextDocId, vectors, nextId, onlyStores>>
  /\ UNCHANGED notChunkStoreVars

\* await db.commit(): all pending rows or none; the foreign key needs the document
StoreCommit(ok) ==
  /\ call.pc = "store_commit"
  /\ IF ok /\ call.doc \in DOMAIN documents
     THEN /\ chunkRows' = chunkRows \cup call.rows
          /\ call' = Goto(call, "store_add", <<"commit_ok">>)
          /\ UNCHANGED <<documents, nextDocId, vectors, nextId, onlyStores>>
     ELSE StoreFail("commit", "commit failed")
  /\ UNCHANGED notChunkStoreVars

\* await vector_store.add_documents(...)
StoreAdd(ok) ==
  /\ call.pc = "store_add"
  /\ IF ok
     THEN /\ vectors' = AddDocuments(vectors, call.entries)
          /\ call' = Returned(call, <<"add_ok">>, "ok", "none", <<>>)
          /\ onlyStores' = StoresOnly("store_chunks", "ok")
          /\ UNCHANGED <<documents, nextDocId, chunkRows, nextId>>
     ELSE StoreFail("add", "Failed to add documents")
  /\ UNCHANGED notChunkStoreVars

\* --------------------------------------------- VectorService.delete_chunks
DeleteBegin(d) ==
  /\ Idle
  /\ call' = [NewCall("delete_chunks", "delete_select") EXCEPT !.doc = d]
  /\ UNCHANGED <<documents, nextDocId, chunkRows, vectors, nextId, onlyStores>>
  /\ UNCHANGED notChunkStoreVars

\* the except branch: rollback, raise VectorDatabaseError("Chunk deletion failed")
DeleteFail(stage, e) ==
  /\ call' = Returned(call, <<stage \o "_fail", "rollback">>, "error", stage,
                      VectorDatabaseError("Chunk deletion failed", e))
  /\ onlyStores' = StoresOnly("delete_chunks", "error")
  /\ UNCHANGED <<documents, nextDocId, chunkRows, vectors, nextId>>

\* select(DocumentChunk).where(document_id == ...); return when there is none
DeleteSelect ==
  /\ call.pc = "delete_select"
  /\ IF RowsOf(chunkRows, call.doc) = {}
     THEN /\ call' = Returned(call, <<"select">>, "ok", "empty", <<>>)
          /\ onlyStores' = StoresOnly("delete_chunks", "ok")
     ELSE /\ call' = [Goto(call, "delete_vectors", <<"select">>) EXCEPT
                !.ids = {r.vector_id : r \in RowsOf(chunkRows, call.doc)}]
          /\ UNCHANGED onlyStores
  /\ UNCHANGED <<documents, nextDocId, chunkRows, vectors, nextId>>
  /\ UNCHANGED notChunkStoreVars

\* DeleteVectors with a failed vector delete swallowed: the rows are deleted anyway
DeleteVectorsSwallowed(ok) ==
  /\ call.pc = "delete_vectors"
  /\ vectors' = IF ok THEN DeleteDocuments(vectors, call.ids) ELSE vectors
  /\ call' = Goto(call, "delete_rows",
                  <<IF ok THEN "delete_documents_ok" ELSE "delete_documents_fail">>)
  /\ UNCHANGED <<documents, nextDocId, chunkRows, nextId, onlyStores>>
  /\ UNCHANGED notChunkStoreVars

\* DeleteVectors after the rows were deleted and committed
DeleteVectorsRowsFirst(ok) ==
  /\ call.pc = "delete_vectors"
  /\ IF ok
     THEN /\ vectors' = DeleteDocuments(vectors, call.ids)
          /\ call' = Goto(call, "delete_rows", <<"delete_documents_ok">>)
          /\ UNCHANGED <<documents, nextDocId, chunkRows, nextId, onlyStores>>
     ELSE /\ chunkRows' = chunkRows \ RowsOf(chunkRows, call.doc)
          /\ call' = Returned(call, <<"commit_ok", "delete_documents_fail">>, "error",
                              "delete_documents",
                              VectorDatabaseError("Chunk deletion failed",
                                                  "Failed to delete documents"))
          /\ onlyStores' = StoresOnly("delete_chunks", "error")
          /\ UNCHANGED <<documents, nextDocId, vectors, nextId>>
  /\ UNCHANGED notChunkStoreVars

\* await vector_store.delete_documents(vector_ids)
DeleteVectors(ok) ==
  /\ call.pc = "delete_vectors"
  /\ IF ok
     THEN /\ vectors' = DeleteDocuments(vectors, call.ids)
          /\ call' = Goto(call, "delete_rows", <<"delete_documents_ok">>)
          /\ UNCHANGED <<documents, nextDocId, chunkRows, nextId, onlyStores>>
     ELSE DeleteFail("delete_documents", "Failed to delete documents")
  /\ UNCHANGED notChunkStoreVars

\* delete(DocumentChunk).where(document_id == ...), then commit
DeleteRows(ok) ==
  /\ call.pc = "delete_rows"
  /\ IF ok
     THEN /\ chunkRows' = chunkRows \ RowsOf(chunkRows, call.doc)
          /\ call' = Returned(call, <<"commit_ok">>, "ok", "none", <<>>)
          /\ onlyStores' = StoresOnly("delete_chunks", "ok")
          /\ UNCHANGED <<documents, nextDocId, vectors, nextId>>
     ELSE DeleteFail("commit", "commit failed")
  /\ UNCHANGED notChunkStoreVars

\* --------------------------------------------- VectorService.update_chunk
UpdateBegin(cid, text) ==
  /\ Idle
  /\ call' = [NewCall("update_chunk", "update_get") EXCEPT !.cid = cid, !.content = text]
  /\ UNCHANGED <<documents, nextDocId, chunkRows, vectors, nextId, onlyStores>>
  /\ UNCHANGED notChunkStoreVars

\* the except branch: rollback, raise VectorDatabaseError("Chunk update failed")
UpdateFail(stage, e) ==
  /\ call' = Returned(call, <<stage \o "_fail", "rollback">>, "error", stage,
                      VectorDatabaseError("Chunk update failed", e))
  /\ onlyStores' = StoresOnly("update_chunk", "error")
  /\ UNCHANGED <<documents, nextDocId, chunkRows, vectors, nextId>>

\* get_chunk_by_id: the row loaded into the session, or return None
UpdateGet ==
  /\ call.pc = "update_get"
  /\ IF {r \in chunkRows : r.id = call.cid} = {}
     THEN /\ call' = Returned(call, <<"select">>, "ok", "not_found", <<>>)
          /\ onlyStores' = StoresOnly("update_chunk", "ok")
     ELSE /\ call' = [Goto(call, "update_embed", <<"select">>) EXCEPT
                !.doc = (CHOOSE r \in chunkRows : r.id = call.cid).document_id,
                !.rows = {r \in chunkRows : r.id = call.cid},
                !.ids = {r.vector_id : r \in {q \in chunkRows : q.id = call.cid}}]
          /\ UNCHANGED onlyStores
  /\ UNCHANGED <<documents, nextDocId, chunkRows, vectors, nextId>>
  /\ UNCHANGED notChunkStoreVars

\* embedding_service.embed_query(content)
UpdateEmbed(ok) ==
  /\ call.pc = "update_embed"
  /\ IF ok
     THEN /\ call' = Goto(call, "update_delete", <<"embed_ok">>)
          /\ UNCHANGED <<documents, nextDocId, chunkRows, vectors, nextId, onlyStores>>
     ELSE UpdateFail("embed", "Query embedding generation failed")
  /\ UNCHANGED notChunkStoreVars

\* vector_store.delete_documents([chunk.vector_id]); then chunk.content = content
UpdateDelete(ok) ==
  /\ call.pc = "update_delete"
  /\ IF ok
     THEN /\ vectors' = DeleteDocuments(vectors, call.ids)
          /\ call' = [Goto(call, "update_add", <<"delete_documents_ok">>) EXCEPT
                !.rows = {[r EXCEPT !.content = call.content] : r \in call.rows}]
          /\ UNCHANGED <<documents, nextDocId, chunkRows, nextId, onlyStores>>
     ELSE UpdateFail("delete_documents", "Failed to delete documents")
  /\ UNCHANGED notChunkStoreVars

\* vector_store.add_documents(ids=[chunk.vector_id], documents=[content], ...)
UpdateAdd(ok) ==
  /\ call.pc = "update_add"
  /\ IF ok
     THEN /\ vectors' = AddDocuments(vectors,
                {VectorEntry(r.vector_id, r.id, r.document_id, r.chunk_index,
                             call.content) : r \in call.rows})
          /\ call' = Goto(call, "update_commit", <<"add_ok">>)
          /\ UNCHANGED <<documents, nextDocId, chunkRows, nextId, onlyStores>>
     ELSE UpdateFail("add", "Failed to add documents")
  /\ UNCHANGED notChunkStoreVars

\* await db.commit(): the row takes the session's content
UpdateCommit(ok) ==
  /\ call.pc = "update_commit"
  /\ IF ok
     THEN /\ chunkRows' = {r \in chunkRows : r.id # call.cid} \cup call.rows
          /\ call' = Returned(call, <<"commit_ok">>, "ok", "none", <<>>)
          /\ onlyStores' = StoresOnly("update_chunk", "ok")
          /\ UNCHANGED <<documents, nextDocId, vectors, nextId>>
     ELSE UpdateFail("commit", "commit failed")
  /\ UNCHANGED notChunkStoreVars

\* ----------------------------------------- DocumentService.delete_document
\* get_document, db.delete(document) with the chunks relationship's cascade, commit
DeleteDocument(d, ok) ==
  /\ Idle
  /\ IF d \notin DOMAIN documents
     THEN /\ call' = Returned([NewCall("delete_document", "idle") EXCEPT !.doc = d],
                              <<"select">>, "ok", "not_found", <<>>)
          /\ UNCHANGED <<documents, chunkRows>>
     ELSE IF ok
     THEN /\ documents' = [x \in DOMAIN documents \ {d} |-> documents[x]]
          /\ chunkRows' = chunkRows \ RowsOf(chunkRows, d)
          /\ call' = Returned([NewCall("delete_document", "idle") EXCEPT !.doc = d],
                              <<"select", "commit_ok">>, "ok", "none", <<>>)
     ELSE /\ call' = Returned([NewCall("delete_document", "idle") EXCEPT !.doc = d],
                              <<"select", "commit_fail">>, "error", "commit",
                              [kind |-> "SQLAlchemyError", message |-> <<"commit failed">>])
          /\ UNCHANGED <<documents, chunkRows>>
  /\ onlyStores' = FALSE
  /\ UNCHANGED <<nextDocId, vectors, nextId>>
  /\ UNCHANGED notChunkStoreVars

\* ------------- DocumentProcessor.process_document / URLProcessor.process_single_url
Pipelines == {"process_document", "process_single_url"}

\* _update_document_status: document.status = status; commit
SetStatus(docs, d, status) == [docs EXCEPT ![d] = status]

\* the except branch: status "failed" when the document is still there, then raise
ProcessFail(c, stage, e) ==
  /\ documents' = IF c.doc \in DOMAIN documents
                  THEN SetStatus(documents, c.doc, "failed") ELSE documents
  /\ call' = Returned(c, <<stage \o "_fail">>, "error", stage, ProcessingError(c.op, e))
  /\ onlyStores' = FALSE
  /\ UNCHANGED <<nextDocId, chunkRows, vectors, nextId>>

ProcessBegin(op, d) ==
  /\ Idle
  /\ call' = [NewCall(op, "process_get") EXCEPT !.doc = d]
  /\ UNCHANGED <<documents, nextDocId, chunkRows, vectors, nextId, onlyStores>>
  /\ UNCHANGED notChunkStoreVars

\* _get_document, then status "processing"
ProcessGet ==
  /\ call.pc = "process_get"
  /\ IF call.doc \notin DOMAIN documents
     THEN ProcessFail(call, "not_found", "Document not found")
     ELSE /\ documents' = SetStatus(documents, call.doc, "processing")
          /\ call' = Goto(call, "process_extract", <<"status_processing">>)
          /\ UNCHANGED <<nextDocId, chunkRows, vectors, nextId, onlyStores>>
  /\ UNCHANGED notChunkStoreVars

\* text extraction (or scraping) and _create_chunks: the splitter's windows
ProcessExtract(ok, texts) ==
  /\ call.pc = "process_extract"
  /\ IF ok
     THEN /\ call' = [Goto(call, "process_store", <<"extract_ok">>) EXCEPT
                        !.texts = texts]
          /\ documents' = SetStatus(documents, call.doc, "processing")
          /\ UNCHANGED <<nextDocId, chunkRows, vectors, nextId, onlyStores>>
     ELSE ProcessFail(call, "extract", "Text extraction failed")
  /\ UNCHANGED notChunkStoreVars

\* _store_chunks: one DocumentChunk per window, db.add, commit
ProcessStore(ok) ==
  /\ call.pc = "process_store"
  /\ IF ok
     THEN /\ nextId + Len(call.texts) <= MaxIds
          /\ nextId' = nextId + Len(call.texts)
          /\ chunkRows' = chunkRows \cup
                {DocumentChunk(nextId + i, call.doc, i - 1, call.texts[i]) :
                   i \in DOMAIN call.texts}
          /\ call' = [Goto(call, "process_finish", <<"commit_ok">>) EXCEPT
                !.ids = {VectorId(nextId + i) : i \in DOMAIN call.texts}]
          /\ UNCHANGED <<documents, nextDocId, vectors, onlyStores>>
     ELSE ProcessFail(call, "commit", "Failed to store chunks")
  /\ UNCHANGED notChunkStoreVars

\* _update_document_metadata, then status "completed"
ProcessFinish(ok) ==
  /\ call.pc = "process_finish"
  /\ IF ok
     THEN /\ documents' = SetStatus(documents, call.doc, "completed")
          /\ call' = Returned(call, <<"status_completed">>, "ok", "none", <<>>)
          /\ onlyStores' = FALSE
          /\ UNCHANGED <<nextDocId, chunkRows, vectors, nextId>>
     ELSE ProcessFail(call, "finish", "commit failed")
  /\ UNCHANGED notChunkStoreVars

\* ------------------------------------------------ QueryCache, directly
\* cache.get(query, document_id, similarity_threshold)
CacheGet(q) ==
  /\ cache' = CacheAfterGet(cache, KeyOf(q), clock)
  /\ lastOp' = CacheOp("get", KeyOf(q), CacheGetResult(cache, KeyOf(q), clock),
                      DOMAIN cache \ DOMAIN cache')
  /\ UNCHANGED <<clock, max_size, tasks, notCacheVars>>

\* cache.set(query, document_id, similarity_threshold, result)
CacheSet(q, result) ==
  /\ cache' \in CacheSetOutcomes(cache, KeyOf(q), result, clock)
  /\ lastOp' = CacheOp("set", KeyOf(q), None, DOMAIN cache \ DOMAIN cache')
  /\ UNCHANGED <<clock, max_size, tasks, notCacheVars>>

\* cache.clear(), clear_cache()
CacheClear ==
  /\ cache' = <<>>
  /\ lastOp' = CacheOp("clear", <<>>, None, DOMAIN cache)
  /\ UNCHANGED <<clock, max_size, tasks, notCacheVars>>

\* ------------------------------------------------- RAGQueryService.query
\* whether query consults and fills the cache
Cacheable(task) == task.use_cache /\ ~task.history

\* except Exception: raise RAGError("Query processing failed")
QueryError(task, events) ==
  [task EXCEPT !.pc = "returned", !.result = [error |-> "RAGError"],
               !.events = @ \o events]

\* QueryBegin looking the question up whatever the conversation history
QueryBeginIgnoringHistory(t, q, history, use_cache) ==
  /\ tasks[t].pc \in {"idle", "returned"}
  /\ LET task == [NoTask EXCEPT !.question = q, !.history = history,
                                !.use_cache = use_cache]
         key == KeyOf(q)
     IN IF use_cache
        THEN IF CacheHit(cache, key, clock)
             THEN /\ cache' = [cache EXCEPT ![key].result = MarkFromCache(@)]
                  /\ tasks' = [tasks EXCEPT ![t] =
                       [task EXCEPT !.pc = "returned", !.events = <<"get">>,
                                    !.result = MarkFromCache(cache[key].result)]]
             ELSE /\ cache' = CacheAfterGet(cache, key, clock)
                  /\ tasks' = [tasks EXCEPT ![t] =
                       [task EXCEPT !.pc = "retrieve", !.events = <<"get">>]]
        ELSE /\ tasks' = [tasks EXCEPT ![t] = [task EXCEPT !.pc = "retrieve"]]
             /\ UNCHANGED cache
  /\ UNCHANGED <<clock, max_size, lastOp, notCacheVars>>

\* entry up to the first await on a collaborator: the cache lookup, and the
\* return of a hit.  The caller may still hold the result of its last query.
QueryBegin(t, q, history, use_cache) ==
  /\ tasks[t].pc \in {"idle", "returned"}
  /\ LET task == [NoTask EXCEPT !.question = q, !.history = history,
                                !.use_cache = use_cache]
         key == KeyOf(q)
     IN IF Cacheable(task)
        THEN IF CacheHit(cache, key, clock)
             THEN /\ cache' = [cache EXCEPT ![key].result = MarkFromCache(@)]
                  /\ tasks' = [tasks EXCEPT ![t] =
                       [task EXCEPT !.pc = "returned", !.events = <<"get">>,
                                    !.result = MarkFromCache(cache[key].result)]]
             ELSE /\ cache' = CacheAfterGet(cache, key, clock)
                  /\ tasks' = [tasks EXCEPT ![t] =
                       [task EXCEPT !.pc = "retrieve", !.events = <<"get">>]]
        ELSE /\ tasks' = [tasks EXCEPT ![t] = [task EXCEPT !.pc = "retrieve"]]
             /\ UNCHANGED cache
  /\ UNCHANGED <<clock, max_size, lastOp, notCacheVars>>

\* await retriever._aget_relevant_documents(...), the no-results return,
\* the ranking
QueryRetrieve(t, docs, ok) ==
  /\ tasks[t].pc = "retrieve"
  /\ tasks' = [tasks EXCEPT ![t] =
       IF ~ok THEN QueryError(@, <<"retrieve">>)
       ELSE IF docs = <<>>
       THEN [@ EXCEPT !.pc = "returned", !.events = @ \o <<"retrieve">>,
                      !.result = NoResults]
       ELSE [@ EXCEPT !.pc = "llm", !.events = @ \o <<"retrieve">>,
                      !.sources = docs]]
  /\ UNCHANGED <<clock, cache, max_size, lastOp, notCacheVars>>

\* QueryLLM with a set that evicts and then is cut short before its insertion
QueryLLMTornSet(t, answer, ok) ==
  /\ tasks[t].pc = "llm"
  /\ LET task == tasks[t]
         result == QueryResult(answer, task.sources)
     IN IF ~ok
        THEN /\ tasks' = [tasks EXCEPT ![t] = QueryError(@, <<"llm">>)]
             /\ UNCHANGED cache
        ELSE /\ tasks' = [tasks EXCEPT ![t] =
                  [@ EXCEPT !.pc = "returned", !.events = @ \o <<"llm", "set">>,
                            !.result = result]]
             /\ IF Cardinality(DOMAIN cache) >= max_size
                THEN \E old \in Oldest(cache) : cache' = Remove(cache, old)
                ELSE cache' = Put(cache, KeyOf(task.question), CacheCopy(result), clock)
  /\ UNCHANGED <<clock, max_size, lastOp, notCacheVars>>

\* QueryLLM returning the result without caching it
QueryLLMNotCaching(t, answer, ok) ==
  /\ tasks[t].pc = "llm"
  /\ tasks' = [tasks EXCEPT ![t] =
       IF ~ok THEN QueryError(@, <<"llm">>)
       ELSE [@ EXCEPT !.pc = "returned", !.events = @ \o <<"llm">>,
                      !.result = QueryResult(answer, tasks[t].sources)]]
  /\ UNCHANGED <<clock, cache, max_size, lastOp, notCacheVars>>

\* await self.llm_non_streaming.ainvoke(messages), the result, cache.set
QueryLLM(t, answer, ok) ==
  /\ tasks[t].pc = "llm"
  /\ LET task == tasks[t]
         result == QueryResult(answer, task.sources)
     IN IF ~ok
        THEN /\ tasks' = [tasks EXCEPT ![t] = QueryError(@, <<"llm">>)]
             /\ UNCHANGED cache
        ELSE IF Cacheable(task)
        THEN /\ cache' \in CacheSetOutcomes(cache, KeyOf(task.question), CacheCopy(result), clock)
             /\ tasks' = [tasks EXCEPT ![t] =
                  [@ EXCEPT !.pc = "returned", !.events = @ \o <<"llm", "set">>,
                            !.result = result]]
        ELSE /\ tasks' = [tasks EXCEPT ![t] =
                  [@ EXCEPT !.pc = "returned", !.events = @ \o <<"llm">>,
                            !.result = result]]
             /\ UNCHANGED cache
  /\ UNCHANGED <<clock, max_size, lastOp, notCacheVars>>

\* the caller has the result, or the RAGError
QueryReturn(t) ==
  /\ tasks[t].pc = "returned"
  /\ tasks' = [tasks EXCEPT ![t] = NoTask]
  /\ UNCHANGED <<clock, cache, max_size, lastOp, notCacheVars>>

\* ------------------- RAGQueryService.query under its two option arguments
\* entry: the cache lookup under the key of question, document scope and
\* threshold; a hit returns
QueryUnderBegin(t, q, optimization, ranking) ==
  /\ tasks[t].pc \in {"idle", "returned"}
  /\ LET task == OptionsTask(q, optimization, ranking)
         key == KeyOf(q)
     IN IF CacheHit(cache, key, clock)
        THEN /\ cache' = [cache EXCEPT ![key].result = MarkFromCacheUnder(@)]
             /\ tasks' = [tasks EXCEPT ![t] =
                  [task EXCEPT !.pc = "returned", !.events = <<"get">>,
                               !.result = MarkFromCacheUnder(cache[key].result)]]
        ELSE /\ cache' = CacheAfterGet(cache, key, clock)
             /\ tasks' = [tasks EXCEPT ![t] =
                  [task EXCEPT !.pc = "optimize", !.events = <<"get">>]]
  /\ UNCHANGED <<clock, max_size, lastOp, notCacheVars>>

\* if enable_query_optimization: optimized_question = optimize_query(...)
QueryUnderOptimize(t) ==
  /\ tasks[t].pc = "optimize"
  /\ tasks' = [tasks EXCEPT ![t] =
       [@ EXCEPT !.pc = "retrieve",
                 !.optimized_question =
                    IF tasks[t].options.enable_query_optimization
                    THEN OptimizeQuery(tasks[t].question, <<>>)
                    ELSE tasks[t].question]]
  /\ UNCHANGED <<clock, cache, max_size, lastOp, notCacheVars>>

\* the retrieval, the no-results return, and
\* if enable_result_ranking: results = rank_results(results, question)
QueryUnderRetrieve(t, docs, ok) ==
  /\ tasks[t].pc = "retrieve"
  /\ tasks' = [tasks EXCEPT ![t] =
       IF ~ok THEN QueryError(@, <<"retrieve">>)
       ELSE IF docs = <<>>
       THEN [@ EXCEPT !.pc = "returned", !.events = @ \o <<"retrieve">>,
                      !.result = NoResults]
       ELSE [@ EXCEPT !.pc = "llm", !.events = @ \o <<"retrieve">>,
                      !.results = IF tasks[t].options.enable_result_ranking
                                  THEN RankResults(docs, tasks[t].question, TRUE, NoType)
                                  ELSE docs]]
  /\ UNCHANGED <<clock, cache, max_size, lastOp, notCacheVars>>

\* the LLM call, the result dict, cache.set under the same key
QueryUnderLLM(t, answer, ok) ==
  /\ tasks[t].pc = "llm"
  /\ LET task == tasks[t]
         result == ResultUnder(task, answer)
     IN IF ~ok
        THEN /\ tasks' = [tasks EXCEPT ![t] = QueryError(@, <<"llm">>)]
             /\ UNCHANGED cache
        ELSE /\ cache' \in CacheSetOutcomes(cache, KeyOf(task.question),
                                            CacheCopyUnder(result), clock)
             /\ tasks' = [tasks EXCEPT ![t] =
                  [@ EXCEPT !.pc = "returned", !.events = @ \o <<"llm", "set">>,
                            !.result = result]]
  /\ UNCHANGED <<clock, max_size, lastOp, notCacheVars>>

\* ------------------------------------------------------------------- Next
\* ------------------------------------------------------ ChatSessionManager
\* the caller has the outcome
EndChat ==
  /\ chat.pc = "returned"
  /\ chat' = NoChat
  /\ UNCHANGED <<sessions, chatMessages>>
  /\ UNCHANGED notChatVars

\* the call c returns value after the steps
ChatReturned(c, steps, value) ==
  [c EXCEPT !.pc = "returned", !.steps = @ \o steps, !.result = value]

\* the call c raises e after the steps
ChatRaised(c, steps, e) ==
  [c EXCEPT !.pc = "returned", !.steps = @ \o steps, !.result = e,
            !.raised = TRUE]

\* the generator c yields the error event and ends
ChatErrorEvent(c, steps, e) ==
  [c EXCEPT !.pc = "returned", !.steps = @ \o steps,
            !.events = @ \o <<ErrorEvent(e)>>]

\* the call c moves on to pc after the steps
ChatGoto(c, pc, steps) == [c EXCEPT !.pc = pc, !.steps = @ \o steps]

\* create_session: add, commit, refresh
CreateSession(title, ok) ==
  /\ ChatIdle
  /\ Len(sessions) < MaxSessions
  /\ IF ok
     THEN /\ sessions' = Append(sessions, ChatSession(title))
          /\ chat' = ChatReturned(NewChat("create_session", Len(sessions) + 1, "idle"),
                                  <<"commit_ok">>, Returns(Len(sessions) + 1))
     ELSE /\ chat' = ChatRaised(NewChat("create_session", 0, "idle"), <<"commit_fail">>,
                                RAGError("Session creation failed", "commit failed"))
          /\ UNCHANGED sessions
  /\ UNCHANGED chatMessages
  /\ UNCHANGED notChatVars

\* add_message: what its two commits may do
AddMessageOutcomes == {"ok", "commit_fail", "touch_fail"}

\* add_message, the chat_messages table after it: the row is committed
\* before the session's timestamp is touched
MessagesAfterAdd(s, role, content, sources, outcome) ==
  IF outcome = "commit_fail" THEN chatMessages
  ELSE Append(chatMessages,
              ChatMessage(Len(chatMessages) + 1, s, role, content, sources))

\* add_message, the chat_sessions table after it:
\* session.updated_at = datetime.now(); commit
SessionsAfterAdd(s, outcome) ==
  IF outcome = "ok" /\ GetSession(sessions, s)
  THEN [sessions EXCEPT ![s].updated_at = "add_message"]
  ELSE sessions

\* send_message / stream_message: get_session
ChatBegin(op, s, question) ==
  /\ ChatIdle
  /\ op \in {"send_message", "stream_message"}
  /\ Len(chatMessages) + 2 <= MaxMessages
  /\ IF GetSession(sessions, s)
     THEN chat' = [ChatGoto(NewChat(op, s, "load"), "load", <<"get_session">>)
                     EXCEPT !.question = question]
     ELSE IF op = "send_message"
     THEN chat' = ChatRaised([NewChat(op, s, "idle") EXCEPT !.question = question],
                             <<"get_session">>,
                             RAGError("Message processing failed", "Session not found"))
     ELSE chat' = ChatErrorEvent([NewChat(op, s, "idle") EXCEPT !.question = question],
                                 <<"get_session">>, "Session not found")
  /\ UNCHANGED <<sessions, chatMessages>>
  /\ UNCHANGED notChatVars

\* get_session_messages(db, session_id, limit=10) into chat_history
ChatLoad ==
  /\ chat.pc = "load"
  /\ chat' = [ChatGoto(chat, "user", <<"get_session_messages">>) EXCEPT
                !.history = ChatHistory(GetSessionMessages(chatMessages, chat.session,
                                                           history_limit))]
  /\ UNCHANGED <<sessions, chatMessages>>
  /\ UNCHANGED notChatVars

\* add_message(db, session_id, "user", question); stream_message then yields
\* message_created
ChatUser(outcome) ==
  /\ chat.pc = "user"
  /\ chatMessages' = MessagesAfterAdd(chat.session, "user", chat.question, None, outcome)
  /\ sessions' = SessionsAfterAdd(chat.session, outcome)
  /\ IF outcome = "ok"
     THEN chat' = [ChatGoto(chat, "retrieve", <<"add_user_message">>) EXCEPT
                     !.user_message_id = Len(chatMessages) + 1,
                     !.events = IF chat.op = "stream_message"
                                THEN <<MessageCreated(Len(chatMessages) + 1, chat.session)>>
                                ELSE <<>>]
     ELSE IF chat.op = "send_message"
     THEN chat' = ChatRaised(chat, <<"add_user_message_fail">>,
                             RAGError("Message processing failed", "Message creation failed"))
     ELSE chat' = ChatErrorEvent(chat, <<"add_user_message_fail">>, "Message creation failed")
  /\ UNCHANGED notChatVars

\* retriever._aget_relevant_documents, in query and in stream_query; query
\* returns the no-results response when nothing came back
ChatRetrieve(docs, ok) ==
  /\ chat.pc = "retrieve"
  /\ IF ~ok
     THEN IF chat.op = "send_message"
          THEN chat' = ChatRaised(chat, <<"retrieve_fail">>,
                                  RAGError("Message processing failed", "Query processing failed"))
          ELSE chat' = ChatErrorEvent(chat, <<"retrieve_fail">>,
                                      "Streaming query processing failed")
     ELSE IF chat.op = "send_message" /\ docs = <<>>
     THEN chat' = [ChatGoto(chat, "assistant", <<"retrieve", "handle_no_results">>) EXCEPT
                     !.documents = docs,
                     !.rag_response = [NoResults EXCEPT !.answer = NoRelevant]]
     ELSE chat' = [ChatGoto(chat, "llm", <<"retrieve">>) EXCEPT !.documents = docs]
  /\ UNCHANGED <<sessions, chatMessages>>
  /\ UNCHANGED notChatVars

\* SendLLM answering with the no-results text when the LLM fails
SendLLMFallback(answer, ok) ==
  /\ chat.pc = "llm"
  /\ chat.op = "send_message"
  /\ IF ok
     THEN chat' = [ChatGoto(chat, "assistant", <<"llm">>) EXCEPT
                     !.rag_response = QueryResult(answer, SourcesOf(chat.documents))]
     ELSE chat' = [ChatGoto(chat, "assistant", <<"llm", "llm_fail">>) EXCEPT
                     !.rag_response = [NoResults EXCEPT !.answer = NoRelevant]]
  /\ UNCHANGED <<sessions, chatMessages>>
  /\ UNCHANGED notChatVars

\* query: llm_non_streaming.ainvoke, then the result dict
SendLLM(answer, ok) ==
  /\ chat.pc = "llm"
  /\ chat.op = "send_message"
  /\ IF ok
     THEN chat' = [ChatGoto(chat, "assistant", <<"llm">>) EXCEPT
                     !.rag_response = QueryResult(answer, SourcesOf(chat.documents))]
     ELSE chat' = ChatRaised(chat, <<"llm", "llm_fail">>,
                             RAGError("Message processing failed", "Query processing failed"))
  /\ UNCHANGED <<sessions, chatMessages>>
  /\ UNCHANGED notChatVars

\* add_message(db, session_id, "assistant", answer, sources); return
SendAssistant(outcome) ==
  /\ chat.pc = "assistant"
  /\ chat.op = "send_message"
  /\ chatMessages' = MessagesAfterAdd(chat.session, "assistant", chat.rag_response.answer,
                                      Json(chat.rag_response.sources), outcome)
  /\ sessions' = SessionsAfterAdd(chat.session, outcome)
  /\ IF outcome = "ok"
     THEN chat' = ChatReturned(chat, <<"add_assistant_message">>,
                    [session_id |-> chat.session,
                     user_message_id |-> chat.user_message_id,
                     assistant_message_id |-> Len(chatMessages) + 1,
                     answer |-> chat.rag_response.answer,
                     sources |-> chat.rag_response.sources,
                     confidence |-> chat.rag_response.confidence,
                     processing_time |-> chat.rag_response.processing_time])
     ELSE chat' = ChatRaised(chat, <<"add_assistant_message_fail">>,
                             RAGError("Message processing failed", "Message creation failed"))
  /\ UNCHANGED notChatVars

\* stream_query: one chunk of llm.astream, passed on as content_delta
StreamDelta(delta) ==
  /\ chat.pc = "llm"
  /\ chat.op = "stream_message"
  /\ Len(chat.full_response) < MaxDeltas
  /\ chat' = [ChatGoto(chat, "llm", IF chat.full_response = <<>> THEN <<"llm">> ELSE <<>>)
                EXCEPT !.full_response = @ \o delta,
                       !.events = @ \o <<ContentDelta(delta)>>]
  /\ UNCHANGED <<sessions, chatMessages>>
  /\ UNCHANGED notChatVars

\* StreamFail without the except branch of stream_message
StreamFailPropagating ==
  /\ chat.pc = "llm"
  /\ chat.op = "stream_message"
  /\ chat' = ChatRaised(chat, IF chat.full_response = <<>>
                              THEN <<"llm", "llm_fail">> ELSE <<"llm_fail">>,
                        RAGError("Streaming query processing failed", "astream failed"))
  /\ UNCHANGED <<sessions, chatMessages>>
  /\ UNCHANGED notChatVars

\* stream_query: llm.astream raises, at its start or between two chunks
StreamFail ==
  /\ chat.pc = "llm"
  /\ chat.op = "stream_message"
  /\ chat' = ChatErrorEvent(chat, IF chat.full_response = <<>>
                                  THEN <<"llm", "llm_fail">> ELSE <<"llm_fail">>,
                            "Streaming query processing failed")
  /\ UNCHANGED <<sessions, chatMessages>>
  /\ UNCHANGED notChatVars

\* stream_query: llm.astream is exhausted
StreamEnd ==
  /\ chat.pc = "llm"
  /\ chat.op = "stream_message"
  /\ chat' = ChatGoto(chat, "assistant", IF chat.full_response = <<>> THEN <<"llm">> ELSE <<>>)
  /\ UNCHANGED <<sessions, chatMessages>>
  /\ UNCHANGED notChatVars

\* add_message(db, session_id, "assistant", full_response); yield message_completed
StreamAssistant(outcome) ==
  /\ chat.pc = "assistant"
  /\ chat.op = "stream_message"
  /\ chatMessages' = MessagesAfterAdd(chat.session, "assistant", chat.full_response,
                                      None, outcome)
  /\ sessions' = SessionsAfterAdd(chat.session, outcome)
  /\ IF outcome = "ok"
     THEN chat' = [ChatGoto(chat, "returned", <<"add_assistant_message">>) EXCEPT
                     !.events = @ \o <<MessageCompleted(Len(chatMessages) + 1,
                                                        chat.full_response)>>]
     ELSE chat' = ChatErrorEvent(chat, <<"add_assistant_message_fail">>,
                                 "Message creation failed")
  /\ UNCHANGED notChatVars

\* DeleteSession deleting the row, and with it (cascade) its messages
DeleteSessionCascading(s, ok) ==
  /\ ChatIdle
  /\ IF ~GetSession(sessions, s)
     THEN /\ chat' = ChatReturned(NewChat("delete_session", s, "idle"),
                                  <<"get_session">>, Returns(FALSE))
          /\ UNCHANGED <<sessions, chatMessages>>
     ELSE IF ok
     THEN /\ sessions' = [sessions EXCEPT ![s].is_active = FALSE,
                                          ![s].updated_at = "delete_session"]
          /\ chatMessages' = SelectSeq(chatMessages, LAMBDA m : m.session_id # s)
          /\ chat' = ChatReturned(NewChat("delete_session", s, "idle"),
                                  <<"get_session", "commit_ok">>, Returns(TRUE))
     ELSE /\ chat' = ChatReturned(NewChat("delete_session", s, "idle"),
                                  <<"get_session", "commit_fail">>, Returns(FALSE))
          /\ UNCHANGED <<sessions, chatMessages>>
  /\ UNCHANGED notChatVars

\* delete_session: get_session; session.is_active = False; commit (the update
\* also sets updated_at: onupdate=func.now())
DeleteSession(s, ok) ==
  /\ ChatIdle
  /\ IF ~GetSession(sessions, s)
     THEN /\ chat' = ChatReturned(NewChat("delete_session", s, "idle"),
                                  <<"get_session">>, Returns(FALSE))
          /\ UNCHANGED sessions
     ELSE IF ok
     THEN /\ sessions' = [sessions EXCEPT ![s].is_active = FALSE,
                                          ![s].updated_at = "delete_session"]
          /\ chat' = ChatReturned(NewChat("delete_session", s, "idle"),
                                  <<"get_session", "commit_ok">>, Returns(TRUE))
     ELSE /\ chat' = ChatReturned(NewChat("delete_session", s, "idle"),
                                  <<"get_session", "commit_fail">>, Returns(FALSE))
          /\ UNCHANGED sessions
  /\ UNCHANGED chatMessages
  /\ UNCHANGED notChatVars

\* delete_session by a second caller, on a session of its own, at its commit,
\* while a send_message or stream_message may be in flight (a missing
\* session or a failed commit changes nothing)
PeerDeleteSession(s) ==
  /\ GetSession(sessions, s)
  /\ sessions' = [sessions EXCEPT ![s].is_active = FALSE,
                                  ![s].updated_at = "delete_session"]
  /\ UNCHANGED <<chatMessages, chat>>
  /\ UNCHANGED notChatVars

\* update_session_title: get_session; session.title = title; commit
UpdateSessionTitle(s, title, ok) ==
  /\ ChatIdle
  /\ IF ~GetSession(sessions, s)
     THEN /\ chat' = ChatReturned(NewChat("update_session_title", s, "idle"),
                                  <<"get_session">>, None)
          /\ UNCHANGED sessions
     ELSE IF ok
     THEN /\ sessions' = [sessions EXCEPT ![s].title = title,
                                          ![s].updated_at = "update_session_title"]
          /\ chat' = ChatReturned(NewChat("update_session_title", s, "idle"),
                                  <<"get_session", "commit_ok">>,
                                  Returns([sessions[s] EXCEPT !.title = title,
                                             !.updated_at = "update_session_title"]))
     ELSE /\ chat' = ChatReturned(NewChat("update_session_title", s, "idle"),
                                  <<"get_session", "commit_fail">>, None)
          /\ UNCHANGED sessions
  /\ UNCHANGED chatMessages
  /\ UNCHANGED notChatVars

\* ------------------------------------------- DocumentProcessor._create_chunks
\* if not text.strip(): raise; else the splitter runs
CreateChunksSplit ==
  /\ chunker.pc = "check"
  /\ IF chunker.text = <<>>
     THEN chunker' = [chunker EXCEPT !.pc = "raised",
                                     !.error = "No text content to chunk"]
     ELSE chunker' = [chunker EXCEPT !.pc = "loop",
                                     !.chunks = SplitText(chunker.text)]
  /\ UNCHANGED <<optimizer, retrieval>>
  /\ UNCHANGED notFunctionVars

\* one round of the loop over the chunks: find the chunk from current_pos on,
\* fall back to current_pos, move current_pos to the chunk's end
CreateChunksStep ==
  /\ chunker.pc = "loop"
  /\ Len(chunker.chunk_data) < Len(chunker.chunks)
  /\ LET i == Len(chunker.chunk_data)
         chunk_text == chunker.chunks[i + 1]
         found == Find(chunker.text, chunk_text, chunker.current_pos)
         start_pos == IF found = -1 THEN chunker.current_pos ELSE found
     IN  chunker' = [chunker EXCEPT
                       !.chunk_data = Append(@, ChunkData(i, chunk_text, start_pos)),
                       !.current_pos = start_pos + Len(chunk_text)]
  /\ UNCHANGED <<optimizer, retrieval>>
  /\ UNCHANGED notFunctionVars

\* return chunk_data
CreateChunksReturn ==
  /\ chunker.pc = "loop"
  /\ Len(chunker.chunk_data) = Len(chunker.chunks)
  /\ chunker' = [chunker EXCEPT !.pc = "returned"]
  /\ UNCHANGED <<optimizer, retrieval>>
  /\ UNCHANGED notFunctionVars

\* ------------------------------------------- RAGQueryService.optimize_query
\* optimized_question = await self.optimize_query(question, chat_history)
QueryOptimize ==
  /\ optimizer.pc = "optimize"
  /\ optimizer' = [optimizer EXCEPT
                     !.pc = "optimized",
                     !.optimized_question = OptimizeQuery(optimizer.question,
                                                          optimizer.history)]
  /\ UNCHANGED <<chunker, retrieval>>
  /\ UNCHANGED notFunctionVars

\* the result dict: query_optimized and original_query
QueryReport ==
  /\ optimizer.pc = "optimized"
  /\ optimizer' = [optimizer EXCEPT
                     !.pc = "returned",
                     !.query_optimized = optimizer.optimized_question # optimizer.question,
                     !.original_query =
                        IF optimizer.optimized_question # optimizer.question
                        THEN Json(optimizer.question) ELSE None]
  /\ UNCHANGED <<chunker, retrieval>>
  /\ UNCHANGED notFunctionVars

\* --------------------------------------- VectorService.similarity_search
\* embed the query, ask the index, keep the hits at or above the threshold;
\* any failure is raised as VectorDatabaseError
SimilaritySearch(ok) ==
  /\ retrieval.pc = "search"
  /\ IF ok
     THEN retrieval' = [retrieval EXCEPT
                          !.pc = "found",
                          !.found = Similarities(retrieval.hits),
                          !.results = FilterByThreshold(Similarities(retrieval.hits),
                                                        retrieval.similarity_threshold)]
     ELSE retrieval' = [retrieval EXCEPT
                          !.pc = "raised",
                          !.error = VectorDatabaseError("Similarity search failed", "e")]
  /\ UNCHANGED <<chunker, optimizer>>
  /\ UNCHANGED notFunctionVars

\* ------------------------------------------- RAGQueryService.rank_results
\* results = await self.rank_results(results, question)
RankResultsCall ==
  /\ retrieval.pc = "found"
  /\ retrieval' = [retrieval EXCEPT
                     !.pc = "ranked",
                     !.ranked = RankResults(retrieval.results, retrieval.query,
                                            retrieval.boost_recent,
                                            retrieval.boost_document_type)]
  /\ UNCHANGED <<chunker, optimizer>>
  /\ UNCHANGED notFunctionVars

\* ------------------- VectorService.delete_chunks beside a call in flight
\* what a concurrent delete_chunks leaves alone
notDeleterVars ==
  <<documents, nextDocId, nextId, call, onlyStores, clock, generatorVars, cacheVars,
    chatVars, functionVars>>

\* a second caller enters delete_chunks, with a session of its own
PeerDeleteBegin(d) ==
  /\ deleter.pc = "idle"
  /\ deleter' = [NewCall("delete_chunks", "delete_select") EXCEPT !.doc = d]
  /\ UNCHANGED <<chunkRows, vectors, notDeleterVars>>

\* its select sees the rows committed so far; it returns when there is none
PeerDeleteSelect ==
  /\ deleter.pc = "delete_select"
  /\ IF RowsOf(chunkRows, deleter.doc) = {}
     THEN deleter' = Returned(deleter, <<"select">>, "ok", "empty", <<>>)
     ELSE deleter' = [Goto(deleter, "delete_vectors", <<"select">>) EXCEPT
                        !.ids = {r.vector_id : r \in RowsOf(chunkRows, deleter.doc)}]
  /\ UNCHANGED <<chunkRows, vectors, notDeleterVars>>

\* await vector_store.delete_documents(vector_ids)
PeerDeleteVectors(ok) ==
  /\ deleter.pc = "delete_vectors"
  /\ IF ok
     THEN /\ vectors' = DeleteDocuments(vectors, deleter.ids)
          /\ deleter' = Goto(deleter, "delete_rows", <<"delete_documents_ok">>)
     ELSE /\ deleter' = Returned(deleter, <<"delete_documents_fail", "rollback">>,
                                 "error", "delete_documents",
                                 VectorDatabaseError("Chunk deletion failed",
                                                     "Failed to delete documents"))
          /\ UNCHANGED vectors
  /\ UNCHANGED <<chunkRows, notDeleterVars>>

\* delete(DocumentChunk).where(document_id == ...) over the rows committed by
\* then, and commit
PeerDeleteRows(ok) ==
  /\ deleter.pc = "delete_rows"
  /\ IF ok
     THEN /\ chunkRows' = chunkRows \ RowsOf(chunkRows, deleter.doc)
          /\ deleter' = Returned(deleter, <<"commit_ok">>, "ok", "none", <<>>)
     ELSE /\ deleter' = Returned(deleter, <<"commit_fail", "rollback">>, "error",
                                 "commit",
                                 VectorDatabaseError("Chunk deletion failed",
                                                     "commit failed"))
          /\ UNCHANGED chunkRows
  /\ UNCHANGED <<vectors, notDeleterVars>>

\* the second caller has its result
PeerEnd ==
  /\ deleter.pc = "returned"
  /\ deleter' = NoCall
  /\ UNCHANGED <<chunkRows, vectors, notDeleterVars>>

Next ==
  \/ CreateDocument
  \/ EndCall
  \/ \E d \in DocIds, chunks \in ChunkLists : StoreBegin(d, chunks)
  \/ \E ok \in BOOLEAN : StoreEmbed(ok)
  \/ \E ok \in BOOLEAN : StoreCommit(ok)
  \/ \E ok \in BOOLEAN : StoreAdd(ok)
  \/ \E d \in DocIds : DeleteBegin(d)
  \/ DeleteSelect
  \/ \E ok \in BOOLEAN : DeleteVectors(ok)
  \/ \E ok \in BOOLEAN : DeleteRows(ok)
  \/ \E cid \in ChunkIds, text \in UpdateTexts : UpdateBegin(cid, text)
  \/ UpdateGet
  \/ \E ok \in BOOLEAN : UpdateEmbed(ok)
  \/ \E ok \in BOOLEAN : UpdateDelete(ok)
  \/ \E ok \in BOOLEAN : UpdateAdd(ok)
  \/ \E ok \in BOOLEAN : UpdateCommit(ok)
  \/ \E d \in DocIds, ok \in BOOLEAN : DeleteDocument(d, ok)
  \/ \E op \in Pipelines, d \in DocIds : ProcessBegin(op, d)
  \/ ProcessGet
  \/ \E ok \in BOOLEAN, texts \in TextLists : ProcessExtract(ok, texts)
  \/ \E ok \in BOOLEAN : ProcessStore(ok)
  \/ \E ok \in BOOLEAN : ProcessFinish(ok)

Spec == Init /\ [][Next]_vars

\* the generator under threads, with a clock that runs forward
NextGenerator ==
  \/ ClockTick
  \/ \E t \in Threads : GenAcquire(t)
  \/ \E t \in Threads : GenRead(t)
  \/ \E t \in Threads : GenWait(t)
  \/ \E t \in Threads : GenMake(t)
  \/ \E t \in Threads : GenReturn(t)

\* ... and with a clock that may also be set back
NextSnowflake ==
  \/ NextGenerator
  \/ ClockBack

SpecSnowflake == Init /\ [][NextSnowflake]_vars

\* the clock advances, and a thread that can take a step takes it
SpecSnowflakeFair ==
  /\ Init /\ [][NextGenerator]_vars
  /\ WF_vars(ClockTick)
  /\ \A t \in Threads : WF_vars(GenWait(t) /\ threads'[t].pc = "make")
  /\ \A t \in Threads : WF_vars(GenMake(t))

\* the cache under direct calls, as its own callers make them
NextCacheOps ==
  \/ ClockTick
  \/ \E q \in TestQueries : CacheGet(q)
  \/ \E q \in TestQueries, result \in CachedValues : CacheSet(q, result)
  \/ CacheClear

SpecCacheOps == InitTestCache /\ [][NextCacheOps]_vars

\* the cache under one caller's queries, one after the other
NextCache ==
  \/ ClockTick
  \/ CacheClear
  \/ \E q \in Questions, history \in BOOLEAN, use_cache \in BOOLEAN :
        QueryBegin("A", q, history, use_cache)
  \/ \E docs \in Retrievals, ok \in BOOLEAN : QueryRetrieve("A", docs, ok)
  \/ \E answer \in Answers, ok \in BOOLEAN : QueryLLM("A", answer, ok)
  \/ QueryReturn("A")

SpecCache == Init /\ [][NextCache]_vars

\* the cache under query coroutines that interleave at their awaits; the
\* queries are the ones that touch the cache: no history, use_cache=True
NextCacheConcurrent ==
  \/ ClockTick
  \/ \E t \in Tasks, q \in Questions : QueryBegin(t, q, FALSE, TRUE)
  \/ \E t \in Tasks, docs \in Retrievals, ok \in BOOLEAN : QueryRetrieve(t, docs, ok)
  \/ \E t \in Tasks, answer \in Answers, ok \in BOOLEAN : QueryLLM(t, answer, ok)
  \/ \E t \in Tasks : QueryReturn(t)

SpecCacheConcurrent == Init /\ [][NextCacheConcurrent]_vars

\* the chat sessions, one ChatSessionManager call at a time
NextChat ==
  \/ EndChat
  \/ \E ok \in BOOLEAN : CreateSession(DefaultTitle, ok)
  \/ \E op \in {"send_message", "stream_message"}, s \in SessionIds,
        question \in ChatQuestions : ChatBegin(op, s, question)
  \/ ChatLoad
  \/ \E outcome \in AddMessageOutcomes : ChatUser(outcome)
  \/ \E docs \in Retrievals, ok \in BOOLEAN : ChatRetrieve(docs, ok)
  \/ \E answer \in ChatAnswers, ok \in BOOLEAN : SendLLM(answer, ok)
  \/ \E outcome \in AddMessageOutcomes : SendAssistant(outcome)
  \/ \E delta \in Deltas : StreamDelta(delta)
  \/ StreamFail
  \/ StreamEnd
  \/ \E outcome \in AddMessageOutcomes : StreamAssistant(outcome)
  \/ \E s \in SessionIds, ok \in BOOLEAN : DeleteSession(s, ok)
  \/ \E s \in SessionIds, title \in Titles, ok \in BOOLEAN : UpdateSessionTitle(s, title, ok)

SpecChat == Init /\ [][NextChat]_vars

\* the same, with a second caller that may delete a session at any moment
NextChatConcurrent ==
  \/ NextChat
  \/ \E s \in SessionIds : PeerDeleteSession(s)

SpecChatConcurrent == Init /\ [][NextChatConcurrent]_vars

\* _create_chunks on any text
InitCreateChunks ==
  /\ InitStores
  /\ clock = 0
  /\ InitGenerator
  /\ InitCache
  /\ InitChat
  /\ chunker \in {CreateChunksCall(text) : text \in InputTexts}
  /\ optimizer = [pc |-> "idle"]
  /\ retrieval = [pc |-> "idle"]

NextCreateChunks ==
  \/ CreateChunksSplit
  \/ CreateChunksStep
  \/ CreateChunksReturn

SpecCreateChunks == InitCreateChunks /\ [][NextCreateChunks]_vars

\* query's optimisation step on any question and history
InitOptimize ==
  /\ InitStores
  /\ clock = 0
  /\ InitGenerator
  /\ InitCache
  /\ InitChat
  /\ chunker = [pc |-> "idle"]
  /\ optimizer \in {OptimizeCall(question, history) :
                       question \in QueryTexts, history \in Histories}
  /\ retrieval = [pc |-> "idle"]

NextOptimize ==
  \/ QueryOptimize
  \/ QueryReport

SpecOptimize == InitOptimize /\ [][NextOptimize]_vars

\* similarity_search and rank_results on any index answer and arguments
InitRetrieval ==
  /\ InitStores
  /\ clock = 0
  /\ InitGenerator
  /\ InitCache
  /\ InitChat
  /\ chunker = [pc |-> "idle"]
  /\ optimizer = [pc |-> "idle"]
  /\ retrieval \in {RetrievalCall(query, threshold, hits, boost_recent, boost_type) :
                       query \in RankQueries, threshold \in Thresholds,
                       hits \in IndexHits, boost_recent \in BOOLEAN,
                       boost_type \in DocumentTypes}

NextRetrieval ==
  \/ \E ok \in BOOLEAN : SimilaritySearch(ok)
  \/ RankResultsCall

SpecRetrieval == InitRetrieval /\ [][NextRetrieval]_vars

\* store_chunks on one session and delete_chunks on another, interleaved
NextStoreDelete ==
  \/ CreateDocument
  \/ EndCall
  \/ \E d \in DocIds, chunks \in ChunkLists : StoreBegin(d, chunks)
  \/ \E ok \in BOOLEAN : StoreEmbed(ok)
  \/ \E ok \in BOOLEAN : StoreCommit(ok)
  \/ \E ok \in BOOLEAN : StoreAdd(ok)
  \/ \E d \in DocIds : PeerDeleteBegin(d)
  \/ PeerDeleteSelect
  \/ \E ok \in BOOLEAN : PeerDeleteVectors(ok)
  \/ \E ok \in BOOLEAN : PeerDeleteRows(ok)
  \/ PeerEnd

SpecStoreDelete == Init /\ [][NextStoreDelete]_vars

\* one caller's history-free, cached queries under any options
NextCacheOptions ==
  \/ \E q \in OptionQuestions, optimization \in BOOLEAN, ranking \in BOOLEAN :
        QueryUnderBegin("A", q, optimization, ranking)
  \/ QueryUnderOptimize("A")
  \/ \E docs \in RankableRetrievals, ok \in BOOLEAN : QueryUnderRetrieve("A", docs, ok)
  \/ \E answer \in Answers, ok \in BOOLEAN : QueryUnderLLM("A", answer, ok)

SpecCacheOptions == Init /\ [][NextCacheOptions]_vars

\* =================================================================== claims
ReturnedFrom(op) == call.pc = "returned" /\ call.op = op

\* the events of the call at which the vector-index write was issued
AddIssuedAt == {i \in DOMAIN call.events : call.events[i] \in {"add_ok", "add_fail"}}

\* C1: within one store_chunks call, add_documents is issued only after the
\* relational commit of that call's rows has succeeded (the rows are in the
\* table by then), and after a failed commit no add_documents is issued and
\* the vector index is as the call found it.
C1_CommitBeforeVectorWrite ==
  call.op = "store_chunks" =>
    /\ \A i \in AddIssuedAt :
         /\ \E j \in 1..(i - 1) : call.events[j] = "commit_ok"
         /\ call.rows # {} /\ call.rows \subseteq chunkRows
    /\ "commit_fail" \in Range(call.events) =>
         AddIssuedAt = {} /\ vectors = call.preVecs
    /\ vectors # call.preVecs => "commit_ok" \in Range(call.events)

\* a store_chunks call that committed and then wrote the vector index
C1_Witness ==
  /\ ReturnedFrom("store_chunks")
  /\ call.events = <<"embed_ok", "commit_ok", "add_ok">>
  /\ call.entries # {} /\ call.entries \subseteq vectors

\* a vector_id is in both stores, once in each, or in neither
Paired(v) ==
  \/ Cardinality(RowsWith(chunkRows, v)) = 1 /\ Cardinality(EntriesWith(vectors, v)) = 1
  \/ RowsWith(chunkRows, v) = {} /\ EntriesWith(vectors, v) = {}

KnownVectorIds == {r.vector_id : r \in chunkRows} \cup {e.id : e \in vectors}

ChunkStoreOps == {"store_chunks", "update_chunk", "delete_chunks"}

C3_EmbeddingFailurePersistsNothing ==
  (ReturnedFrom("store_chunks") /\ call.stage = "embed") =>
    /\ call.result = "error"
    /\ chunkRows = call.preRows
    /\ vectors = call.preVecs
    /\ Range(call.events) \cap {"commit_ok", "add_ok", "add_fail"} = {}

\* an embedding failure of a call on a document that already has chunks
C3_Witness ==
  /\ ReturnedFrom("store_chunks") /\ call.stage = "embed"
  /\ RowsOf(chunkRows, call.doc) # {}

\* C4: when the vector-index write fails after the commit succeeded, the call
\* raises and the rows it committed stay in the relational store, each with
\* its generated vector_id.
C4_PartialFailureKeepsRows ==
  (ReturnedFrom("store_chunks") /\ call.stage = "add") =>
    /\ call.result = "error"
    /\ call.rows # {}
    /\ call.rows \subseteq chunkRows
    /\ {r.vector_id : r \in call.rows} = call.ids
    /\ \A r \in call.rows : r.vector_id = VectorId(r.id)
    /\ \A v \in call.ids : EntriesWith(vectors, v) = {}

\* a failed vector write of a two-chunk batch
C4_Witness ==
  /\ ReturnedFrom("store_chunks") /\ call.stage = "add"
  /\ Cardinality(call.rows) = 2

\* the errors store_chunks raises when nothing was persisted: embedding or commit failed
TotalFailureErrors ==
  {StoreError("Embedding generation failed"), StoreError("commit failed")}

\* C5: the error store_chunks raises when the vector write failed after the
\* commit (partial failure) differs in kind from the errors it raises when
\* nothing was persisted.
C5_PartialFailureDistinctKind ==
  (ReturnedFrom("store_chunks") /\ call.stage = "add") =>
    \A e \in TotalFailureErrors : e.kind # call.error.kind

\* C6: after delete_chunks(document_id) returned successfully the relational
\* store holds no chunk row of the document and the vector index holds no
\* entry of the document's chunks.
C6_DeleteLeavesNothing ==
  (ReturnedFrom("delete_chunks") /\ call.result = "ok") =>
    /\ RowsOf(chunkRows, call.doc) = {}
    /\ EntriesOf(vectors, call.doc) = {}

\* C7: when process_document or process_single_url has set a document's
\* status to completed, every chunk row of the document has a vector-index
\* entry under its vector_id.
C7_CompletedMeansIndexed ==
  (call.pc = "returned" /\ call.op \in Pipelines /\ call.result = "ok") =>
    /\ documents[call.doc] = "completed"
    /\ \A r \in RowsOf(chunkRows, call.doc) : EntriesWith(vectors, r.vector_id) # {}

\* C8: after delete_document(d) succeeded no chunk row of d is in the
\* relational store and no vector-index entry of a chunk of d is in the index.
C8_DeleteDocumentCascades ==
  (ReturnedFrom("delete_document") /\ call.result = "ok" /\ call.stage = "none") =>
    /\ call.doc \notin DOMAIN documents
    /\ RowsOf(chunkRows, call.doc) = {}
    /\ EntriesOf(vectors, call.doc) = {}

\* the committed content of chunk cid in rows, and the content the index holds
\* under vector id v (the empty set when there is none)
RowContents(rows, cid) == {r.content : r \in {q \in rows : q.id = cid}}
IndexContents(vecs, v) == {e.document : e \in EntriesWith(vecs, v)}

\* C9: whenever an update_chunk call on a chunk whose two sides agreed has
\* ended, by returning or by raising at any step, the committed row content
\* and the content under its vector_id agree: both new or both old.
C9_UpdateAtomic ==
  (/\ ReturnedFrom("update_chunk") /\ call.stage # "not_found"
   /\ \A v \in call.ids :
        IndexContents(call.preVecs, v) = RowContents(call.preRows, call.cid)) =>
    \A v \in call.ids :
      /\ IndexContents(vectors, v) = RowContents(chunkRows, call.cid)
      /\ \/ RowContents(chunkRows, call.cid) = {call.content}
         \/ RowContents(chunkRows, call.cid) = RowContents(call.preRows, call.cid)

\* the chunk_index values of the rows of document d
IndicesOf(d) == {r.chunk_index : r \in RowsOf(chunkRows, d)}

\* C10: after any sequence of successful store_chunks calls the rows of every
\* document carry the indices 0..n-1, each exactly once, n being the number of
\* rows of the document.
C10_IndicesContiguous ==
  (onlyStores /\ call.pc \in {"idle", "returned"}) =>
    \A d \in DocIds :
      /\ IndicesOf(d) = 0..(Cardinality(RowsOf(chunkRows, d)) - 1)
      /\ \A i \in IndicesOf(d) :
           Cardinality({r \in RowsOf(chunkRows, d) : r.chunk_index = i}) = 1

\* C11: a store_chunks call whose batch holds a chunk without a content field,
\* or with empty or whitespace-only content, ends in an error at its entry:
\* no embedding call, no commit and no vector write is issued, it builds no
\* row and no vector entry, and the rows and the vector index are as the
\* call found them, whatever valid chunks the batch also holds.
C11_InvalidBatchRejectedBeforeIO ==
  (call.op = "store_chunks" /\ call.invalid) =>
    /\ call.pc = "returned"
    /\ call.result = "error"
    /\ call.error.kind = "VectorDatabaseError"
    /\ call.events = <<>>
    /\ call.rows = {} /\ call.entries = {} /\ call.ids = {}
    /\ chunkRows = call.preRows
    /\ vectors = call.preVecs

\* a batch was rejected for its second chunk: the first one was valid
C11_Witness ==
  /\ ReturnedFrom("store_chunks")
  /\ call.invalid
  /\ call.stage = "validation"
  /\ call.error.message[2] = 2
  /\ call.events = <<>>

\* C12: whatever the interleaving of the threads calling generate_id on one
\* generator, the ids it returned are pairwise distinct.
C12_IdsDistinct ==
  \A i, j \in DOMAIN issued : i # j => issued[i] # issued[j]

\* two threads hold an id each, from calls that were in flight together
C12_Witness ==
  \E t, u \in Threads :
    /\ t # u
    /\ threads[t].pc = "done" /\ threads[u].pc = "done"
    /\ threads[t].id # threads[u].id

\* C13: every id generate_id returns is strictly greater than every id the
\* generator returned before it, whether the clock reading repeats, advances,
\* goes back (the call then raises and returns no id) or the sequence wraps.
C13_IdsStrictlyIncreasing ==
  \A i, j \in DOMAIN issued : i < j => issued[i] < issued[j]

\* ids of one millisecond, an id of a later one, and one issued after a wrap
C13_Witness ==
  /\ Len(issued) >= 3
  /\ \E i \in 1..(Len(issued) - 1) :
       ParseId(issued[i]).timestamp = ParseId(issued[i + 1]).timestamp
  /\ \E i \in 1..(Len(issued) - 1) :
       ParseId(issued[i]).timestamp < ParseId(issued[i + 1]).timestamp
  /\ \E t \in Threads : threads[t].pc = "done" /\ threads[t].waited

\* C14: a call that finds the sequence of the last-used millisecond exhausted
\* waits; it leaves the wait only on a clock reading strictly later than that
\* millisecond, it then returns the id of that later reading with sequence 0,
\* and, the clock advancing, it does return.
C14_ExhaustionWaitsForNextMillisecond ==
  /\ [](\A t \in Threads :
          threads[t].pc = "wait" =>
            /\ sequence = 0
            /\ threads[t].arg = last_timestamp
            /\ lock = t)
  /\ [][\A t \in Threads :
          (threads[t].pc = "wait" /\ threads'[t].pc # "wait") => clock > threads[t].arg]_vars
  /\ [](\A t \in Threads :
          (threads[t].pc = "done" /\ threads[t].waited) =>
            /\ threads[t].timestamp > threads[t].arg
            /\ threads[t].id = SnowflakeId(threads[t].timestamp, 0)
            /\ ParseId(threads[t].id).timestamp = threads[t].timestamp
            /\ ParseId(threads[t].id).sequence = 0)
  /\ \A t \in Threads : (threads[t].pc = "wait") ~> (threads[t].pc = "done")

\* a call that waited has returned its id
C14_Witness ==
  \E t \in Threads :
    /\ threads[t].pc = "done"
    /\ threads[t].waited
    /\ ParseId(threads[t].id).timestamp = threads[t].arg + 1

\* C15: a query with conversation history, use_cache set or not, issues no
\* cache lookup and no cache insertion, and no step of it (its entry, its
\* retrieval, its LLM call) changes the cache.
C15_HistoryBypassesCache ==
  /\ [](\A t \in Tasks :
          tasks[t].history =>
            /\ "get" \notin Range(tasks[t].events)
            /\ "set" \notin Range(tasks[t].events))
  /\ [][\A t \in Tasks :
          (tasks'[t].history /\ tasks'[t] # tasks[t]) => cache' = cache]_vars

\* a query with history and use_cache=True was answered by the LLM while the
\* cache held a live entry for its key
C15_Witness ==
  \E t \in Tasks :
    /\ tasks[t].pc = "returned"
    /\ tasks[t].history /\ tasks[t].use_cache
    /\ tasks[t].events = <<"retrieve", "llm">>
    /\ CacheHit(cache, KeyOf(tasks[t].question), clock)

\* C16: a history-free query with use_cache=True that retrieved a chunk and
\* was answered by the LLM reports from_cache=False and leaves its result in
\* the cache; the same query issued next by the caller, the entry still there
\* and younger than the TTL, returns at once with from_cache=True and the
\* answer, sources and confidence of the first, without retrieval or LLM call.
C16_SecondIdenticalQueryIsCacheHit ==
  /\ [][\A t \in Tasks :
          (/\ tasks[t].pc = "llm" /\ Cacheable(tasks[t])
           /\ tasks'[t].pc = "returned"
           /\ "error" \notin DOMAIN tasks'[t].result)
            => /\ tasks'[t].result.from_cache = FALSE
               /\ KeyOf(tasks[t].question) \in DOMAIN cache'
               /\ cache'[KeyOf(tasks[t].question)].result = CacheCopy(tasks'[t].result)
               /\ cache'[KeyOf(tasks[t].question)].timestamp = clock]_vars
  /\ [][\A t \in Tasks, q \in Questions :
          (/\ tasks[t].pc = "returned"
           /\ tasks[t].question = q /\ Cacheable(tasks[t])
           /\ tasks[t].events = <<"get", "retrieve", "llm", "set">>
           /\ KeyOf(q) \in DOMAIN cache
           /\ cache[KeyOf(q)].result = CacheCopy(tasks[t].result)
           /\ clock - cache[KeyOf(q)].timestamp < ttl
           /\ QueryBegin(t, q, FALSE, TRUE))
            => /\ tasks'[t].pc = "returned"
               /\ tasks'[t].events = <<"get">>
               /\ tasks'[t].result.from_cache = TRUE
               /\ tasks'[t].result.answer = tasks[t].result.answer
               /\ tasks'[t].result.sources = tasks[t].result.sources
               /\ tasks'[t].result.confidence = tasks[t].result.confidence]_vars

\* the second of two identical queries came back from the cache
C16_Witness ==
  \E t \in Tasks :
    /\ tasks[t].pc = "returned"
    /\ tasks[t].events = <<"get">>
    /\ tasks[t].result.from_cache = TRUE
    /\ tasks[t].result.answer = "y"
    /\ tasks[t].result.retrieved_documents >= 1

\* C17: QueryCache.get returns the stored result exactly when the entry's age,
\* now minus its insertion time, is strictly below the TTL, and then leaves
\* the cache as it is; on an entry whose age is the TTL or more it returns
\* None and deletes that entry, and nothing else.
C17_GetHonoursTtl ==
  [][\A q \in TestQueries :
       CacheGet(q) =>
         LET key == KeyOf(q) IN
           /\ key \notin DOMAIN cache =>
                lastOp'.result = None /\ cache' = cache
           /\ (key \in DOMAIN cache /\ clock - cache[key].timestamp < ttl) =>
                lastOp'.result = cache[key].result /\ cache' = cache
           /\ (key \in DOMAIN cache /\ clock - cache[key].timestamp >= ttl) =>
                /\ lastOp'.result = None
                /\ DOMAIN cache' = DOMAIN cache \ {key}
                /\ \A k \in DOMAIN cache' : cache'[k] = cache[k]]_vars

\* a get found its entry expired and deleted it
C17_Witness ==
  /\ lastOp.op = "get"
  /\ lastOp.result = None
  /\ lastOp.deleted = {lastOp.key}
  /\ lastOp.key \notin DOMAIN cache

\* C18: the cache never holds more than max_size entries; a set on a cache
\* holding max_size entries deletes exactly one of them, one whose insertion
\* timestamp no other entry's is below, and then holds the new entry with the
\* current time, the remaining entries untouched.
C18_CapacityBoundOldestEvicted ==
  /\ [](Cardinality(DOMAIN cache) <= max_size)
  /\ [][\A q \in TestQueries, result \in CachedValues :
          (CacheSet(q, result) /\ Cardinality(DOMAIN cache) >= max_size) =>
            \E old \in DOMAIN cache :
              /\ \A j \in DOMAIN cache : cache[old].timestamp <= cache[j].timestamp
              /\ DOMAIN cache' = (DOMAIN cache \ {old}) \cup {KeyOf(q)}
              /\ cache'[KeyOf(q)] = [result |-> result, timestamp |-> clock]
              /\ \A k \in DOMAIN cache' \ {KeyOf(q)} : cache'[k] = cache[k]]_vars

\* a set on the full cache evicted the oldest of entries of different ages
C18_Witness ==
  /\ lastOp.op = "set"
  /\ Cardinality(lastOp.deleted) = 1
  /\ Cardinality(DOMAIN cache) = max_size
  /\ \E k \in DOMAIN cache : cache[k].timestamp < clock
  /\ \A k \in DOMAIN cache : cache[k].timestamp > 0

C20_CachedValuesWithoutVolatileFields ==
  \A key \in DOMAIN cache :
    /\ "processing_time" \notin DOMAIN cache[key].result
    /\ "from_cache" \notin DOMAIN cache[key].result

\* ------------------------------------------------------------------ C21
\* the call in flight has retrieved, and nothing passed the threshold
RetrievedNothing ==
  /\ chat.op \in {"send_message", "stream_message"}
  /\ "retrieve" \in Range(chat.steps)
  /\ chat.documents = <<>>

\* C21: in both modes, blocking (query, under send_message) and streaming
\* (stream_query, under stream_message), when the retriever returns no chunk
\* the LLM is not invoked; the blocking caller gets the no-relevant-content
\* response with confidence 0 and no sources, the streaming caller gets no
\* generated content.
C21_NoChunksNoLLM ==
  RetrievedNothing =>
    /\ "llm" \notin Range(chat.steps)
    /\ chat.op = "send_message" =>
         /\ chat.rag_response.answer = NoRelevant
         /\ chat.rag_response.confidence = 0
         /\ chat.rag_response.sources = <<>>
    /\ chat.op = "stream_message" =>
         \A i \in DOMAIN chat.events : chat.events[i].type # "content_delta"

\* ------------------------------------------------------------------ C22
EventTypes(events) == [i \in DOMAIN events |-> events[i].type]

\* message_created, content_delta*, then at most one of message_completed
\* and error; or error alone
StreamGrammar(types) ==
  \A i \in DOMAIN types :
    IF i = 1
    THEN types[i] \in {"message_created", "error"}
    ELSE /\ types[i] \in {"content_delta", "message_completed", "error"}
         /\ types[i - 1] \in {"message_created", "content_delta"}

\* C22: what stream_message has yielded so far is always a prefix of
\* message_created, content_delta*, message_completed, or such a prefix
\* without message_completed followed by one error event; when the generator
\* has ended the last event is message_completed or error, nothing follows
\* either of them, and no exception reaches the consumer.
C22_StreamEventsWellFormed ==
  chat.op = "stream_message" =>
    /\ StreamGrammar(EventTypes(chat.events))
    /\ ~chat.raised
    /\ chat.pc = "returned" =>
         /\ chat.events # <<>>
         /\ chat.events[Len(chat.events)].type \in {"message_completed", "error"}

\* a stream failed between two content chunks
C22_Witness ==
  /\ chat.op = "stream_message"
  /\ chat.pc = "returned"
  /\ EventTypes(chat.events) = <<"message_created", "content_delta", "error">>

\* ------------------------------------------------------------------ C23
\* send_message returned its dict, or stream_message yielded message_completed
ChatCompleted(op) ==
  /\ chat.op = op
  /\ chat.pc = "returned"
  /\ ~chat.raised
  /\ IF op = "stream_message"
     THEN chat.events # <<>> /\ chat.events[Len(chat.events)].type = "message_completed"
     ELSE chat.result # None

\* the citations send_message persists with the assistant message, for what
\* the retriever returned
SentSources(docs) == Json(SourcesOf(docs))

\* C23: when the retriever returned chunks, the assistant message a
\* completed stream_message persisted carries the source citations
\* send_message persists for the same retrieval results (and a completed
\* send_message persisted exactly those).
C23_StreamPersistsSameSources ==
  \A op \in {"send_message", "stream_message"} :
    (ChatCompleted(op) /\ chat.documents # <<>>) =>
      /\ chatMessages[Len(chatMessages)].role = "assistant"
      /\ chatMessages[Len(chatMessages)].sources = SentSources(chat.documents)

\* ------------------------------------------------------------------ C24
\* the messages the session had when the call began
SessionBefore == MessagesOf(chat.preMessages, chat.session)

\* how many of them the window holds
WindowSize ==
  IF Len(SessionBefore) < history_limit THEN Len(SessionBefore) ELSE history_limit

SessionOps ==
  {"send_message", "stream_message", "delete_session", "update_session_title"}

\* the call was given a session id with no row, or with a soft-deleted row
SessionMissing ==
  /\ chat.op \in SessionOps
  /\ \/ chat.session \notin DOMAIN chat.preSessions
     \/ ~chat.preSessions[chat.session].is_active

\* C25: send_message, stream_message, delete_session and
\* update_session_title on a session id that does not exist or is
\* soft-deleted end at once reporting not-found (send_message raises,
\* stream_message yields one error event, delete_session returns False,
\* update_session_title returns None), and both tables are as the call
\* found them: no message added, no session field changed.
C25_MissingSessionNotFound ==
  SessionMissing =>
    /\ chat.pc = "returned"
    /\ chat.steps = <<"get_session">>
    /\ chat.op = "send_message" =>
         /\ chat.raised
         /\ chat.result = RAGError("Message processing failed", "Session not found")
    /\ chat.op = "stream_message" =>
         /\ ~chat.raised
         /\ chat.events = <<ErrorEvent("Session not found")>>
    /\ chat.op = "delete_session" => ~chat.raised /\ chat.result = Returns(FALSE)
    /\ chat.op = "update_session_title" => ~chat.raised /\ chat.result = None
    /\ chatMessages = chat.preMessages
    /\ sessions = chat.preSessions

\* a message was sent to a soft-deleted session that has messages
C25_Witness ==
  /\ SessionMissing
  /\ chat.op = "send_message"
  /\ chat.session \in DOMAIN sessions
  /\ MessagesOf(chatMessages, chat.session) # <<>>

\* ------------------------------------------------------------------ C26
\* delete_session returned True
SessionDeleted ==
  /\ chat.op = "delete_session"
  /\ chat.pc = "returned"
  /\ chat.result = Returns(TRUE)

\* C26 as stated: after delete_session the session's active flag is false,
\* every message and every other session field, updated_at included, is as
\* before, and neither get_session nor the listing returns the session.
C26_SoftDeleteChangesOnlyFlag ==
  SessionDeleted =>
    /\ sessions = [chat.preSessions EXCEPT ![chat.session].is_active = FALSE]
    /\ chatMessages = chat.preMessages
    /\ ~GetSession(sessions, chat.session)
    /\ chat.session \notin ListSessions(sessions)

\* C26, amended: after delete_session the session's active flag is false,
\* every message is as before, every other session and every other field
\* of this one except updated_at (which the update refreshes) is as before,
\* and neither get_session nor the listing returns the session.
C26_SoftDeleteKeepsMessages ==
  SessionDeleted =>
    /\ sessions = [chat.preSessions EXCEPT
                     ![chat.session].is_active = FALSE,
                     ![chat.session].updated_at = sessions[chat.session].updated_at]
    /\ chat.preSessions[chat.session].is_active
    /\ chatMessages = chat.preMessages
    /\ ~GetSession(sessions, chat.session)
    /\ chat.session \notin ListSessions(sessions)

\* a retitled session with messages was deleted
C26_Witness ==
  /\ SessionDeleted
  /\ MessagesOf(chatMessages, chat.session) # <<>>
  /\ sessions[chat.session].title # DefaultTitle

\* ------------------------------------------------------------------ C27
\* C27: when the splitter cut the text into two or more windows, each
\* overlapping the one before it, the chunk list _create_chunks returns has
\* start_char = 0 in its first chunk and, in every later chunk, a start_char
\* strictly below the end_char of the chunk before.
C27_OverlapInOffsets ==
  (chunker.pc = "returned" /\ Len(chunker.chunks) >= 2) =>
    /\ chunker.chunk_data[1].start_char = 0
    /\ \A i \in 2..Len(chunker.chunk_data) :
         chunker.chunk_data[i].start_char < chunker.chunk_data[i - 1].end_char

\* ------------------------------------------------------------------ C28
\* the user's last up-to-3 turns of the history
LastUserTurns(history) == LastN(UserTurns(history), recent_messages)

\* C28: for a question of at most 2 words and a history with user turns,
\* optimize_query returns the question, a space, and the first
\* context_chars characters of the user's last up-to-3 turns joined (in
\* lower case, as the code takes them).
C28_ShortQuestionGetsUserContext ==
  (/\ optimizer.pc \in {"optimized", "returned"}
   /\ WordCount(optimizer.question) <= short_query_words
   /\ UserTurns(optimizer.history) # <<>>) =>
    optimizer.optimized_question =
      optimizer.question \o <<Space>>
        \o Take(Lower(Join(LastUserTurns(optimizer.history))), context_chars)

\* ------------------------------------------------------------------ C29
\* C29: for a question of more than 2 words, or without history,
\* optimize_query returns the question character for character, and the
\* query result reports query_optimized = false.
C29_LongOrNoHistoryUnchanged ==
  (\/ WordCount(optimizer.question) > short_query_words
   \/ optimizer.history = <<>>) =>
    /\ optimizer.pc \in {"optimized", "returned"} =>
         optimizer.optimized_question = optimizer.question
    /\ optimizer.pc = "returned" => ~optimizer.query_optimized

\* ------------------------------------------------------------------ C30
TerminalStatuses == {"completed", "failed"}

\* C30: a document is created with status processing; a run of the
\* ingestion pipeline on a document that exists ends with its status
\* completed or failed; and no step, of a retried run either, changes a
\* status that is completed or failed.
C30_StatusLifecycle ==
  [][/\ \A d \in DOMAIN documents' \ DOMAIN documents : documents'[d] = "processing"
     /\ (call'.pc = "returned" /\ call'.op \in Pipelines
          /\ call'.doc \in DOMAIN documents') =>
           documents'[call'.doc] \in TerminalStatuses
     /\ \A d \in DOMAIN documents \cap DOMAIN documents' :
          documents[d] \in TerminalStatuses => documents'[d] = documents[d]]_vars

\* ------------------------------------------------------------------ C31
\* C31: every candidate rank_results scored has an enhanced_score greater
\* than or equal to its similarity, whichever boosts applied to it.
C31_EnhancedAtLeastSimilarity ==
  retrieval.pc = "ranked" =>
    \A i \in DOMAIN retrieval.ranked :
      retrieval.ranked[i].annotated =>
        retrieval.ranked[i].enhanced_score >= Unboosted(retrieval.ranked[i].similarity)

\* rank_results scored a candidate all three boosts applied to
C31_Witness ==
  /\ retrieval.pc = "ranked"
  /\ \E i \in DOMAIN retrieval.ranked :
       LET r == retrieval.ranked[i]
       IN  /\ r.annotated
           /\ r.similarity > 0
           /\ retrieval.boost_recent /\ r.metadata.created_at
           /\ retrieval.boost_document_type # NoType
           /\ r.metadata.document_type = retrieval.boost_document_type
           /\ r.metadata.title.present
           /\ TitleMatches(r.metadata.title, retrieval.query)
           /\ r.enhanced_score > Unboosted(r.similarity)

\* ------------------------------------------------------------------ C32
\* the candidates of a list that are chunk c with its similarity and metadata
Copies(results, c) ==
  Cardinality({i \in DOMAIN results :
                 /\ results[i].content = c.content
                 /\ results[i].similarity = c.similarity
                 /\ results[i].metadata = c.metadata})

\* C32: the list rank_results returns holds exactly the candidates it was
\* given, each as often as it was given, with their content, similarity and
\* metadata, both when it sorted them and when its scoring loop raised.
C32_RankingKeepsCandidates ==
  retrieval.pc = "ranked" =>
    /\ Len(retrieval.ranked) = Len(retrieval.results)
    /\ \A i \in DOMAIN retrieval.results :
         Copies(retrieval.ranked, retrieval.results[i])
           = Copies(retrieval.results, retrieval.results[i])
    /\ \A i \in DOMAIN retrieval.ranked :
         Copies(retrieval.results, retrieval.ranked[i]) >= 1

\* the scoring loop raised on the second candidate, or a later one
C32_Witness ==
  /\ retrieval.pc = "ranked"
  /\ FirstRaising(retrieval.results) >= 2
  /\ retrieval.ranked[1].annotated
  /\ ~retrieval.ranked[Len(retrieval.ranked)].annotated

\* ------------------------------------------------------------------ C33
\* C33: similarity_search returns the hits of the index whose similarity is
\* at or above the threshold, all of them and no other, in the order of the
\* index.
C33_ThresholdFilterExact ==
  retrieval.pc \in {"found", "ranked"} =>
    /\ \A j \in DOMAIN retrieval.results :
         /\ retrieval.results[j].similarity >= retrieval.similarity_threshold
         /\ retrieval.results[j].content \in DOMAIN retrieval.found
         /\ retrieval.results[j].similarity
              = retrieval.found[retrieval.results[j].content].similarity
         /\ retrieval.results[j].metadata
              = retrieval.found[retrieval.results[j].content].metadata
    /\ \A j \in 1..(Len(retrieval.results) - 1) :
         retrieval.results[j].content < retrieval.results[j + 1].content
    /\ \A i \in DOMAIN retrieval.found :
         retrieval.found[i].similarity >= retrieval.similarity_threshold =>
           \E j \in DOMAIN retrieval.results : retrieval.results[j].content = i

\* a hit exactly at the threshold was returned and one below it was not
C33_Witness ==
  /\ retrieval.pc = "found"
  /\ retrieval.similarity_threshold > 0
  /\ \E j \in DOMAIN retrieval.results :
       retrieval.results[j].similarity = retrieval.similarity_threshold
  /\ \E i \in DOMAIN retrieval.found :
       /\ retrieval.found[i].similarity < retrieval.similarity_threshold
       /\ \A j \in DOMAIN retrieval.results : retrieval.results[j].content # i

\* ------------------------------------------------------------------ C34
\* C34: a generate_id call that reads a clock earlier than last_timestamp
\* raises, hands out no id and leaves last_timestamp, sequence and the ids
\* issued as they were; and the ids issued stay strictly increasing, so none
\* is a duplicate or out of order.
C34_ClockBackwardsRefused ==
  /\ [][\A t \in Threads :
          (/\ threads[t].pc = "read"
           /\ clock < last_timestamp
           /\ threads'[t] # threads[t]) =>
            /\ threads'[t].pc = "raised"
            /\ threads'[t].id = -1
            /\ last_timestamp' = last_timestamp
            /\ sequence' = sequence
            /\ issued' = issued]_vars
  /\ [](\A i \in 1..(Len(issued) - 1) : issued[i] < issued[i + 1])

\* a call raised on a clock set back, in a millisecond that had issued
\* several ids
C34_Witness ==
  \E t \in Threads :
    /\ threads[t].pc = "raised"
    /\ clock < last_timestamp
    /\ sequence > 0
    /\ Len(issued) >= 2

\* ------------------------------------------------------------------ C35
\* the events of the call up to its n-th
EventsBefore(n) == {call.events[i] : i \in 1..(n - 1)}

C36_NoOrphanVectorAfterStoreAndDelete ==
  (/\ ReturnedFrom("store_chunks")
   /\ deleter.pc = "returned"
   /\ deleter.doc = call.doc) =>
    \A e \in vectors : RowsWith(chunkRows, e.id) # {}

\* ------------------------------------------------------------------ C37
\* C37: however delete_session and a send_message or stream_message on the
\* same session interleave, no step appends a message to a session whose
\* soft delete is committed.
C37_NoMessageAfterSoftDelete ==
  [][\A s \in DOMAIN sessions :
       ~sessions[s].is_active =>
         MessagesOf(chatMessages', s) = MessagesOf(chatMessages, s)]_vars

\* ------------------------------------------------------------------ C38
\* send_message returned after its retrieval or its LLM call failed
PipelineFailed ==
  /\ chat.pc = "returned"
  /\ chat.op = "send_message"
  /\ \/ "retrieve_fail" \in Range(chat.steps)
     \/ "llm_fail" \in Range(chat.steps)

\* C38: when retrieval or the LLM fails in send_message on an existing
\* session, the call raises, and the messages table is what it was at the
\* start of the call plus one row, the user's message with the question: no
\* assistant message was added.
C38_PipelineFailureKeepsUserMessage ==
  PipelineFailed =>
    /\ chat.raised
    /\ chat.result.kind = "RAGError"
    /\ Len(chatMessages) = Len(chat.preMessages) + 1
    /\ SubSeq(chatMessages, 1, Len(chat.preMessages)) = chat.preMessages
    /\ chatMessages[Len(chatMessages)].role = "user"
    /\ chatMessages[Len(chatMessages)].session_id = chat.session
    /\ chatMessages[Len(chatMessages)].content = chat.question
    /\ chatMessages[Len(chatMessages)].id = chat.user_message_id

\* the LLM failed in a send_message on a session that had messages
C38_Witness ==
  /\ PipelineFailed
  /\ "llm_fail" \in Range(chat.steps)
  /\ chat.preMessages # <<>>
  /\ chat.documents # <<>>

\* ------------------------------------------------------------------ C39
\* C39: a set under a key the cache already holds, on a full cache as on any
\* other, puts the new result with the current time under that key and
\* leaves every other entry in the cache as it was.
C39_SetOfPresentKeyEvictsNothing ==
  [][\A q \in TestQueries, result \in CachedValues :
       (CacheSet(q, result) /\ KeyOf(q) \in DOMAIN cache) =>
         /\ DOMAIN cache' = DOMAIN cache
         /\ cache'[KeyOf(q)] = [result |-> result, timestamp |-> clock]
         /\ \A k \in DOMAIN cache \ {KeyOf(q)} : cache'[k] = cache[k]]_vars

\* ------------------------------------------------------------------ C40
\* the query of task t was answered from the cache
ServedFromCache(t) ==
  /\ tasks[t].pc = "returned"
  /\ tasks[t].events = <<"get">>

\* C40: a query answered from the cache gets a result that was computed
\* under its own enable_query_optimization and enable_result_ranking.
C40_CacheHitUnderSameOptions ==
  \A t \in Tasks :
    ServedFromCache(t) => tasks[t].result.computed_under = tasks[t].options

====
